---------------------------- MODULE Spec2Model ----------------------------
(***************************************************************************)
(* A model of the concurrency substrate of the smart-home control bus:     *)
(*                                                                         *)
(*  - WritableDataLogVariable._write (shc/log/generic.py): the batched     *)
(*    write queue of a data-log variable with its flush mutex and its      *)
(*    flushing-finished event;                                             *)
(*  - SupervisedClientInterface (shc/interfaces/_helper.py): start(),      *)
(*    stop() and the _supervise task with its hooks, and interface_failure *)
(*    of shc/supervisor.py.                                                *)
(*                                                                         *)
(* The program runs on one cooperative asyncio event loop: an action of    *)
(* the model is the code a task executes between two suspension points.    *)
(***************************************************************************)
EXTENDS Integers, Sequences, FiniteSets, TLC

(***************************************************************************)
(* Bounds of the model.                                                    *)
(***************************************************************************)
\* Number of _write calls on the data-log variable, each in a task of its own;
\* a task is named by the position of its call among the calls: writer w is
\* the task of the w-th call.
NumWriters == 3
\* Largest number of live views subscribed to the data-log variable.
MaxSubscribers == 1

Writers == 1 .. NumWriters

\* The value None of Optional[asyncio.Event]; an event is named by the writer
\* that created it.
None == 0

VARIABLES
    \* ---- WritableDataLogVariable ----
    pending_values,        \* _pending_values: the queue of entries not yet flushed
    flushing_finished,     \* _flushing_finished: None or the event of the next flush
    events_set,            \* the asyncio.Event objects that have been set
    mutex_locked,          \* _mutex._locked
    mutex_waiters,         \* _mutex._waiters: FIFO of the tasks waiting for the lock
    mutex_woken,           \* the future of the first waiter has been resolved
    data_log_subscribers,  \* len(_data_log_subscribers)
    flushes,               \* per flush: batch, _write_to_data_log and subscriber calls
    w_pc,                  \* position of each writer task in _write
    w_event,               \* current_finish_event of each writer task
    w_flush,               \* index in flushes of the flush a writer performs
    w_exc,                 \* the exception a writer's _write call raised
    calls,                 \* the number of _write calls begun so far
    during                 \* per writer: the flush in progress when its call began

logvars == <<pending_values, flushing_finished, events_set, mutex_locked,
             mutex_waiters, mutex_woken, data_log_subscribers, flushes,
             w_pc, w_event, w_flush, w_exc, calls, during>>

VARIABLES
    \* ---- SupervisedClientInterface ----
    auto_reconnect,        \* self.auto_reconnect
    failsafe_arg,          \* the constructor argument failsafe_start
    failsafe_start,        \* self.failsafe_start
    sleep_interval,        \* sleep_interval of _supervise, a fraction <<num, den>>
    started,               \* the future _started: unset, pending, ok or an exception
    stopping,              \* the event _stopping
    running,               \* the event _running
    start_pc,              \* the caller of start()
    sup_pc,                \* position of the task _supervise_task
    raise_after,           \* the exception _supervise raises once run_task ended
    wait_stopping,         \* the task wait_stopping
    connect_task,          \* the task connect_task
    run_task,              \* the task run_task
    wait_running,          \* the task wait_running
    subscribe_task,        \* the task subscribe_task
    timeout_fired,         \* the timeout of the backoff sleep has expired
    stop_pc,               \* the callers of stop()
    failure_task,          \* the task running interface_failure
    exit_code,             \* supervisor._EXIT_CODE
    \* ---- the collaborator behind the hooks ----
    disconnected,          \* _disconnect was called since the last call of _connect
    fault_log,             \* the failures of the collaborator so far, in order
    \* ---- history ----
    startup_failed,        \* an attempt ended before startup had been reported
    waits,                 \* the intervals of the backoff sleeps begun so far
    connect_count,         \* number of calls of _connect
    subscribe_count,       \* number of calls of _subscribe
    disconnect_count,      \* number of calls of _disconnect
    failure_count,         \* number of invocations of interface_failure
    stop_state             \* the position of the supervise task when stop() was called

supvars == <<auto_reconnect, failsafe_arg, failsafe_start, sleep_interval,
             started, stopping, running, start_pc, sup_pc, raise_after,
             wait_stopping, connect_task, run_task, wait_running,
             subscribe_task, timeout_fired, stop_pc, failure_task, exit_code,
             disconnected, fault_log, startup_failed, waits, connect_count,
             subscribe_count, disconnect_count, failure_count, stop_state>>

VARIABLES
    \* ---- supervisor.py: run(), stop() and main() ----
    shc_stopped,           \* the event _SHC_STOPPED
    main_pc,               \* position of main()
    main_code,             \* the value main() returned
    run_pc,                \* position of the task of run()
    startup_events,        \* history: the calls run() has made and seen return
    other_start,           \* start() of the second registered interface
    other_stop,            \* per stop() task: stop() of the second interface
    timer_stop,            \* per stop() task: timer_supervisor.stop()
    stop_set               \* per stop() task: it has set _SHC_STOPPED

procvars == <<shc_stopped, main_pc, main_code, run_pc, startup_events,
              other_start,
              other_stop, timer_stop, stop_set>>

VARIABLES
    \* ---- WebApiObject and its clients ----
    future,                \* self.future, by the number of the future
    futures,               \* the futures created so far: state and result
    provider_value,        \* what _from_provider returns
    g_pc,                  \* per client: position of its GET request
    g_future,              \* per client: the future its wait_for awaits
    g_elapsed,             \* per client: the timeout of its wait_for has expired
    g_request,             \* per client: the parameters of the suspended request
    responses,             \* history: per client the responses to its GETs
    written,               \* history: the values passed to _publish_http
    write_errors,          \* history: number of _publish_http calls that raised
    published,             \* history: the values passed to _publish, with origin
    posts                  \* history: the POST requests and their outcome

webvars == <<future, futures, provider_value, g_pc, g_future, g_elapsed,
             g_request, responses, written, write_errors, published, posts>>

VARIABLES
    \* ---- aggregate() ----
    agg_call,              \* the arguments of the call
    agg_pc,                \* the call has been made, or has returned
    agg_result,            \* the list aggregate() returned
    agg_error,             \* the exception aggregate() raised, or "none"
    agg_read               \* history: the number of log entries read

aggvars == <<agg_call, agg_pc, agg_result, agg_error, agg_read>>

VARIABLES
    \* ---- LiveDataLogView ----
    clock,                 \* datetime.now(), in whole seconds
    view_writable,         \* isinstance(data_log, WritableDataLogVariable)
    view_external,         \* self.external_updates
    view_aggregation,      \* self.aggregation is not None
    last_retrieved_timestamp, \* _last_retrieved_timestamp
    view_locked,           \* _mutex._locked of the view
    view_waiters,          \* _mutex._waiters of the view
    view_woken,            \* the future of the first waiter has been resolved
    updates_created,       \* the number of _update tasks created so far
    u_pc,                  \* position of each _update task
    u_range,               \* begin_time and end_time of each _update task
    c_pc,                  \* position of each get_current_view call
    c_range,               \* the time range a get_current_view call retrieves
    c_seen,                \* history: len(processed) when the call returned
    processed,             \* history: the calls of _process_new_logvalues
    notified               \* history: the _new_log_values_written calls begun

viewvars == <<clock, view_writable, view_external, view_aggregation,
              last_retrieved_timestamp, view_locked, view_waiters, view_woken,
              updates_created, u_pc, u_range, c_pc, c_range, c_seen,
              processed, notified>>

VARIABLES
    \* ---- MySQLPersistenceVariable.retrieve_log ----
    pool_ready,            \* interface.pool_ready is set
    db_rows,               \* the rows of the log table with the variable's name
    ret_call,              \* the arguments of the retrieve_log call
    ret_pc,                \* position of the retrieve_log call
    ret_result             \* the list retrieve_log returned

retvars == <<pool_ready, db_rows, ret_call, ret_pc, ret_result>>

VARIABLES
    \* ---- timer.py: one Every timer and its run() task ----
    time_now,              \* datetime.datetime.now(), in seconds since the epoch
    every_align,           \* Every.align
    every_delta,           \* Every.delta
    every_offset,          \* Every.offset
    every_random,          \* Every.random (0 for None)
    random_function,       \* Every.random_function
    last_execution,        \* AbstractTimer.last_execution
    next_execution,        \* the local next_execution of run()
    timer_pc,              \* position of the run() task
    scheduled,             \* history: the calls of _next_execution
    fired_at,              \* history: the time of each firing
    publish_tasks          \* the tasks created for _publish, by firing

timervars == <<time_now, every_align, every_delta, every_offset, every_random,
               random_function, last_execution, next_execution, timer_pc,
               scheduled, fired_at, publish_tasks>>

VARIABLES
    \* ---- timer.py: one call of _logarithmic_sleep ----
    sleep_now,             \* datetime.datetime.now(), in twentieths of a second
    sleep_target,          \* the argument target
    sleep_called,          \* history: the time of the call
    sleep_pc,              \* position of the call
    sleeps                 \* history: the asyncio.sleep calls and how long they lasted

sleepvars == <<sleep_now, sleep_target, sleep_called, sleep_pc, sleeps>>

VARIABLES
    \* ---- web/__init__.py: one websocket connection ----
    ws_handler,            \* position of the websocket handler of the connection
    ws_kind,               \* the route of the connection: "ui" or "api"
    ws_tasks,              \* the dispatch tasks created for its messages
    ui_subscribed,         \* ws in subscribed_websockets of the LoggingWebUIView
    api_subscribed,        \* ws in subscribed_websockets of the WebApiObject
    view_entries,          \* number of log entries the view of the connector holds
    ws_frames              \* history: the frames sent to the websocket

wsvars == <<ws_handler, ws_kind, ws_tasks, ui_subscribed, api_subscribed,
            view_entries, ws_frames>>

VARIABLES
    \* ---- the entries of a data log with a live view in poll mode ----
    entry_time,            \* the timestamp _write gave to the value of each call
    u_data                 \* the entries retrieve_log returned to each _update

pollvars == <<entry_time, u_data>>

vars == <<logvars, supvars, procvars, webvars, aggvars, viewvars, retvars, timervars, sleepvars, wsvars, pollvars>>

\* What a step of the data-log variable leaves alone, and what a step of the
\* supervised interface taken on its own leaves alone.
beside_log == <<supvars, procvars, webvars, aggvars, viewvars, retvars, timervars, sleepvars, wsvars, pollvars>>
beside_sup == <<logvars, procvars, webvars, aggvars, viewvars, retvars, timervars, sleepvars, wsvars, pollvars>>

(***************************************************************************)
(* WritableDataLogVariable.__init__                                        *)
(***************************************************************************)
InitLogSubscribed(subscribers) ==
    /\ pending_values = << >>
    /\ flushing_finished = None
    /\ events_set = {}
    /\ mutex_locked = FALSE
    /\ mutex_waiters = << >>
    /\ mutex_woken = FALSE
    /\ data_log_subscribers = subscribers
    /\ flushes = << >>
    /\ w_pc = [w \in Writers |-> "idle"]
    /\ w_event = [w \in Writers |-> None]
    /\ w_flush = [w \in Writers |-> 0]
    /\ w_exc = [w \in Writers |-> "none"]
    /\ calls = 0
    /\ during = [w \in Writers |-> 0]

\* A variable nothing has subscribed to yet.
InitLog == InitLogSubscribed(0)

(***************************************************************************)
(* Helpers of _write.                                                      *)
(***************************************************************************)
\* A _write in which every call flushes by itself, whatever is pending.
EveryCallFlushes(ff) == TRUE

\* `if self._flushing_finished is None`: this task will do the flush itself.
NoFlushPending(ff) == ff = None

\* asyncio.Lock.acquire takes the lock without suspending only if the lock is
\* free and nobody is queued for it.
LockFree == ~mutex_locked /\ mutex_waiters = << >>

\* Event.wait returns once the event has been set.
EventIsSet(ev) == ev \in events_set

\* The flush whose task currently holds the mutex (0: none).
FlushInProgress ==
    IF \E w \in Writers : w_pc[w] = "flushing"
    THEN w_flush[CHOOSE w \in Writers : w_pc[w] = "flushing"]
    ELSE 0

\* The result of `await asyncio.gather(*tasks)` after one more child finished:
\* the first exception of a child is propagated at once, the other children
\* keep running; the result is set when every child has returned.
GatherOutcome(outer, log, subs, failed) ==
    IF outer # "pending" THEN outer
    ELSE IF failed # "none" THEN failed
    ELSE IF log = "ok" /\ \A s \in DOMAIN subs : subs[s] = "ok" THEN "ok"
    ELSE "pending"

\* The record of one flush: `tasks = [self._write_to_data_log(flushed_values)]
\* + [subscriber._new_log_values_written(flushed_values) for subscriber ...]`.
\* With a single task it is awaited directly, otherwise through gather.
NewFlush(w, batch) ==
    [by    |-> w,
     batch |-> batch,
     log   |-> "running",
     subs  |-> [s \in 1 .. data_log_subscribers |-> "running"],
     outer |-> IF data_log_subscribers = 0 THEN "direct" ELSE "pending"]

\* Lines 86-97, executed without suspension once the mutex is held: the atomic
\* retrieval and clearing of the queue, the clearing of _flushing_finished,
\* and the start of the backend write and of the subscriber notifications.
\* `queue` is _pending_values and `event` is _flushing_finished at that moment.
BeginFlush(w, queue, event) ==
    /\ mutex_locked' = TRUE
    /\ pending_values' = << >>
    /\ flushing_finished' = None
    /\ flushes' = Append(flushes, NewFlush(w, queue))
    /\ w_flush' = [w_flush EXCEPT ![w] = Len(flushes) + 1]
    /\ w_event' = [w_event EXCEPT ![w] = event]
    /\ w_pc' = [w_pc EXCEPT ![w] = "flushing"]

\* Leaving `async with self._mutex` (normally or by an exception): Lock.release
\* unlocks and resolves the future of the first waiter.
ReleaseMutex ==
    /\ mutex_locked' = FALSE
    /\ mutex_woken' = (mutex_waiters # << >>)

\* A _write that sets the event of the flush whether the awaited write raised
\* or not (as with line 98 in a `finally` clause).
EndFlushSetsEventAlways(w, outcome) ==
    /\ ReleaseMutex
    /\ events_set' = events_set \cup {w_event[w]}
    /\ IF outcome = "ok"
       THEN /\ w_pc' = [w_pc EXCEPT ![w] = "returned"]
            /\ w_exc' = w_exc
       ELSE /\ w_pc' = [w_pc EXCEPT ![w] = "raised"]
            /\ w_exc' = [w_exc EXCEPT ![w] = outcome]

\* The end of the flush in the flushing task: line 98 `current_finish_event
\* .set()` is reached only if the awaited write did not raise; the mutex is
\* released either way, and _write returns or raises.
EndFlush(w, outcome) ==
    /\ ReleaseMutex
    /\ IF outcome = "ok"
       THEN /\ events_set' = events_set \cup {w_event[w]}
            /\ w_pc' = [w_pc EXCEPT ![w] = "returned"]
            /\ w_exc' = w_exc
       ELSE /\ events_set' = events_set
            /\ w_pc' = [w_pc EXCEPT ![w] = "raised"]
            /\ w_exc' = [w_exc EXCEPT ![w] = outcome]

(***************************************************************************)
(* WritableDataLogVariable.subscribe_data_log                              *)
(***************************************************************************)
subscribe_data_log ==
    /\ data_log_subscribers < MaxSubscribers
    /\ data_log_subscribers' = data_log_subscribers + 1
    /\ UNCHANGED <<pending_values, flushing_finished, events_set, mutex_locked,
                   mutex_waiters, mutex_woken, flushes, w_pc, w_event, w_flush,
                   w_exc, calls, during>>

(***************************************************************************)
(* WritableDataLogVariable._write, from the call to its first suspension.  *)
(* The entry a call appends (timestamp, value) is named by the calling     *)
(* task.                                                                   *)
(***************************************************************************)
Write(w) ==
    /\ w_pc[w] = "idle"
    /\ w = calls + 1
    /\ calls' = calls + 1
    /\ during' = [during EXCEPT ![w] = FlushInProgress]
    /\ LET queue == Append(pending_values, w) IN
       IF NoFlushPending(flushing_finished)
       THEN IF LockFree
            THEN \* the lock is taken at once: the flush starts in this step
                 /\ BeginFlush(w, queue, w)
                 /\ UNCHANGED <<mutex_waiters, mutex_woken>>
            ELSE \* `async with self._mutex` suspends
                 /\ pending_values' = queue
                 /\ flushing_finished' = w
                 /\ mutex_waiters' = Append(mutex_waiters, w)
                 /\ w_pc' = [w_pc EXCEPT ![w] = "mutex_wait"]
                 /\ UNCHANGED <<mutex_locked, mutex_woken, flushes, w_flush,
                                w_event>>
       ELSE \* some other task is waiting to flush: wait for its event
            /\ pending_values' = queue
            /\ w_event' = [w_event EXCEPT ![w] = flushing_finished]
            /\ w_pc' = [w_pc EXCEPT ![w] = "event_wait"]
            /\ UNCHANGED <<flushing_finished, mutex_locked, mutex_waiters,
                           mutex_woken, flushes, w_flush>>
    /\ UNCHANGED <<events_set, data_log_subscribers, w_exc>>

\* The task waiting in Lock.acquire is resumed: it takes the lock, leaves the
\* queue of waiters and runs lines 86-97.
MutexAcquired(w) ==
    /\ w_pc[w] = "mutex_wait"
    /\ mutex_woken
    /\ mutex_waiters # << >> /\ Head(mutex_waiters) = w
    /\ mutex_waiters' = Tail(mutex_waiters)
    /\ mutex_woken' = FALSE
    /\ BeginFlush(w, pending_values, flushing_finished)
    /\ UNCHANGED <<events_set, data_log_subscribers, w_exc, calls, during>>

\* _write_to_data_log of flush i returns or raises.  Awaited directly (no
\* subscriber), the flushing task continues in the same step.
WriteToDataLogEnds(i, result) ==
    /\ i \in DOMAIN flushes
    /\ flushes[i].log = "running"
    /\ LET f == flushes[i]
           failed == IF result = "ok" THEN "none" ELSE "log_error"
           g == [f EXCEPT !.log = result]
       IN  IF f.outer = "direct"
           THEN /\ flushes' = [flushes EXCEPT ![i] = g]
                /\ EndFlush(f.by, IF result = "ok" THEN "ok" ELSE "log_error")
           ELSE /\ flushes' = [flushes EXCEPT ![i] =
                       [g EXCEPT !.outer = GatherOutcome(f.outer, g.log, g.subs, failed)]]
                /\ UNCHANGED <<events_set, mutex_locked, mutex_woken, w_pc, w_exc>>
    /\ UNCHANGED <<pending_values, flushing_finished, mutex_waiters,
                   data_log_subscribers, w_event, w_flush, calls, during>>

\* _new_log_values_written of subscriber s for flush i returns or raises
\* while the gather is pending (afterwards gather discards the result, and
\* nothing of the variable depends on it).
NewLogValuesWrittenEnds(i, s, result) ==
    /\ i \in DOMAIN flushes
    /\ s \in DOMAIN flushes[i].subs
    /\ flushes[i].subs[s] = "running"
    /\ flushes[i].outer = "pending"
    /\ LET f == flushes[i]
           failed == IF result = "ok" THEN "none" ELSE "subscriber_error"
           g == [f EXCEPT !.subs[s] = result]
       IN  flushes' = [flushes EXCEPT ![i] =
               [g EXCEPT !.outer = GatherOutcome(f.outer, g.log, g.subs, failed)]]
    /\ UNCHANGED <<pending_values, flushing_finished, events_set, mutex_locked,
                   mutex_waiters, mutex_woken, data_log_subscribers, w_pc,
                   w_event, w_flush, w_exc, calls, during>>

\* The flushing task is resumed from `await asyncio.gather(*tasks)`.
GatherResumes(w) ==
    /\ w_pc[w] = "flushing"
    /\ flushes[w_flush[w]].outer \in {"ok", "log_error", "subscriber_error"}
    /\ EndFlush(w, flushes[w_flush[w]].outer)
    /\ UNCHANGED <<pending_values, flushing_finished, mutex_waiters,
                   data_log_subscribers, flushes, w_event, w_flush, calls,
                   during>>

\* Line 102: a task waiting for the flushing-finished event is resumed.
EventWaitReturns(w) ==
    /\ w_pc[w] = "event_wait"
    /\ EventIsSet(w_event[w])
    /\ w_pc' = [w_pc EXCEPT ![w] = "returned"]
    /\ UNCHANGED <<pending_values, flushing_finished, events_set, mutex_locked,
                   mutex_waiters, mutex_woken, data_log_subscribers, flushes,
                   w_event, w_flush, w_exc, calls, during>>

\* The task of a _write call is cancelled while it waits for the mutex, line
\* 85: Lock.acquire removes its future from the waiters, wakes up the next
\* waiter if the lock is free, and CancelledError leaves _write; nothing of
\* the variable is touched.
WriteCancelled(w) ==
    /\ w_pc[w] = "mutex_wait"
    /\ LET rest == SelectSeq(mutex_waiters, LAMBDA t : t # w)
       IN  /\ mutex_waiters' = rest
           /\ mutex_woken' = (~mutex_locked /\ rest # << >>)
    /\ w_pc' = [w_pc EXCEPT ![w] = "raised"]
    /\ w_exc' = [w_exc EXCEPT ![w] = "CancelledError"]
    /\ UNCHANGED <<pending_values, flushing_finished, events_set, mutex_locked,
                   data_log_subscribers, flushes, w_event, w_flush, calls,
                   during>>

Results == {"ok", "failed"}

(***************************************************************************)
(* SupervisedClientInterface                                               *)
(***************************************************************************)
\* Largest number of failures of the collaborator (a rejected _connect, a
\* failing _subscribe, a _run that ends without _disconnect having been
\* called); after them the collaborator is available.
MaxFaults == 2

\* self.backoff_base = 1 and self.backoff_exponent = 1.25 = 5 / 4
backoff_base == 1
backoff_exponent_num == 5
backoff_exponent_den == 4

\* The callers of stop(): the stop() task a signal handler creates and the
\* one interface_failure creates.
StopTasks == {"signal", "failure"}

Exceptions == {"ConnectError", "SubscribeError", "RunError", "RuntimeError",
               "InvalidStateError", "CancelledError"}

\* A constructor that keeps the argument failsafe_start as it is given.
FailsafeStartAsGiven(arg, reconnect) == arg

\* `self.failsafe_start = failsafe_start and auto_reconnect`
FailsafeStart(arg, reconnect) == arg /\ reconnect

\* A backoff whose interval never grows.
ConstantInterval(i) == i

\* `sleep_interval *= self.backoff_exponent`
NextInterval(i) == <<i[1] * backoff_exponent_num, i[2] * backoff_exponent_den>>

\* Task.cancel of a task: a task that is done stays as it is.
Cancelled(task) == IF task = "pending" THEN "cancelled" ELSE task

\* A supervise task that takes the run task for ended whatever its state.
RunTakenForDone == TRUE

\* `run_task in done`, and `await run_task` can be resumed.
RunDone == run_task \in {"returned", "raised"}

\* SupervisedClientInterface.__init__ with any arguments; nothing else exists
\* before start().
InitSup ==
    /\ auto_reconnect \in BOOLEAN
    /\ failsafe_arg \in BOOLEAN
    /\ failsafe_start = FailsafeStart(failsafe_arg, auto_reconnect)
    /\ sleep_interval = <<backoff_base, 1>>
    /\ started = "unset"
    /\ stopping = FALSE
    /\ running = FALSE
    /\ start_pc = "idle"
    /\ sup_pc = "idle"
    /\ raise_after = "none"
    /\ wait_stopping = "none"
    /\ connect_task = "none"
    /\ run_task = "none"
    /\ wait_running = "none"
    /\ subscribe_task = "none"
    /\ timeout_fired = FALSE
    /\ stop_pc = [c \in StopTasks |-> "idle"]
    /\ failure_task = "none"
    /\ exit_code = 0
    /\ disconnected = FALSE
    /\ fault_log = << >>
    /\ startup_failed = FALSE
    /\ waits = << >>
    /\ connect_count = 0
    /\ subscribe_count = 0
    /\ disconnect_count = 0
    /\ failure_count = 0
    /\ stop_state = "none"

\* The variables no hook call and no task of the supervisor changes.
config == <<auto_reconnect, failsafe_arg, failsafe_start>>

\* The history only stop() writes.
stop_hist == <<stop_state>>

(***************************************************************************)
(* start(): lines 23-31.  The supervise task is created and runs later.    *)
(***************************************************************************)
start ==
    /\ start_pc = "idle"
    /\ started' = "pending"
    /\ stopping' = FALSE
    /\ running' = FALSE
    /\ sup_pc' = "created"
    /\ start_pc' = "awaiting"
    /\ UNCHANGED <<config, stop_hist, sleep_interval, raise_after, wait_stopping,
                   connect_task, run_task, wait_running, subscribe_task,
                   timeout_fired, stop_pc, failure_task, exit_code,
                   disconnected, fault_log, startup_failed, waits,
                   connect_count, subscribe_count, disconnect_count,
                   failure_count>>

\* `await self._started` is resumed: start() returns or raises.
start_resumes ==
    /\ start_pc = "awaiting"
    /\ started \notin {"unset", "pending"}
    /\ start_pc' = IF started = "ok" THEN "returned" ELSE "raised"
    /\ UNCHANGED <<config, stop_hist, sleep_interval, started, stopping, running, sup_pc,
                   raise_after, wait_stopping, connect_task, run_task,
                   wait_running, subscribe_task, timeout_fired, stop_pc,
                   failure_task, exit_code, disconnected, fault_log,
                   startup_failed, waits, connect_count, subscribe_count,
                   disconnect_count, failure_count>>

(***************************************************************************)
(* _supervise                                                              *)
(***************************************************************************)
\* Lines 100-107, the head of the loop: the tasks wait_stopping and
\* connect_task are created (_connect is called) and awaited.
BeginAttempt ==
    /\ raise_after' = "none"
    /\ wait_stopping' = "pending"
    /\ connect_task' = "pending"
    /\ connect_count' = connect_count + 1
    /\ disconnected' = FALSE
    /\ sup_pc' = "connect_wait"

\* A _supervise that gives up silently after the first attempt that ended.
AfterAttemptGivesUp(stop, reconnect) == "return"

\* A _supervise that reconnects whatever auto_reconnect says.
AfterAttemptAlwaysReconnects(stop, reconnect) ==
    IF stop THEN "return" ELSE "sleep"

\* Lines 168-186: what _supervise does after an attempt has ended and startup
\* has been reported.
AfterAttempt(stop, reconnect) ==
    IF stop THEN "return"
    ELSE IF ~reconnect THEN "interface_failure"
    ELSE "sleep"

\* Lines 149-190: the end of an attempt with exception `exc` ("none": the run
\* task returned), up to the next suspension or the end of the task.  `st` is
\* the state of the future _started when the attempt ends.
EndAttempt(exc, st) ==
    /\ running' = FALSE
    /\ IF st = "pending" /\ ~failsafe_start
       THEN \* report the startup error, disconnect and quit
            /\ started' = (IF exc # "none" THEN exc ELSE "CancelledError")
            /\ startup_failed' = TRUE
            /\ wait_stopping' = Cancelled(wait_stopping)
            /\ disconnect_count' = disconnect_count + 1
            /\ disconnected' = TRUE
            /\ sup_pc' = "abort_disconnect"
            /\ UNCHANGED <<failure_count, failure_task, timeout_fired, waits>>
       ELSE /\ started' = (IF st = "pending" THEN "ok" ELSE st)
            /\ startup_failed' = (startup_failed \/ st = "pending")
            /\ UNCHANGED <<disconnect_count, disconnected>>
            /\ LET todo == AfterAttempt(stopping, auto_reconnect) IN
               CASE todo = "return" ->
                        /\ wait_stopping' = Cancelled(wait_stopping)
                        /\ sup_pc' = "done"
                        /\ UNCHANGED <<failure_count, failure_task,
                                       timeout_fired, waits>>
                 [] todo = "interface_failure" ->
                        /\ wait_stopping' = Cancelled(wait_stopping)
                        /\ failure_count' = failure_count + 1
                        /\ failure_task' = "scheduled"
                        /\ sup_pc' = "done"
                        /\ UNCHANGED <<timeout_fired, waits>>
                 [] todo = "sleep" ->
                        /\ wait_stopping' = "pending"
                        /\ timeout_fired' = FALSE
                        /\ waits' = Append(waits, sleep_interval)
                        /\ sup_pc' = "sleep"
                        /\ UNCHANGED <<failure_count, failure_task>>

\* `await run_task` with the run task done: its exception is raised here, and
\* otherwise the statement after it is reached (`after`: the exception that
\* statement raises, "none" at line 147).
AwaitRunResult(after) == IF run_task = "raised" THEN "RunError" ELSE after

\* The first step of the supervise task: line 97 and the head of the loop.
supervise_begins ==
    /\ sup_pc = "created"
    /\ sleep_interval' = <<backoff_base, 1>>
    /\ BeginAttempt
    /\ UNCHANGED <<config, stop_hist, started, stopping, running, start_pc, run_task,
                   wait_running, subscribe_task, timeout_fired, stop_pc,
                   failure_task, exit_code, fault_log, startup_failed, waits,
                   subscribe_count, disconnect_count, failure_count>>

\* Lines 107-119: resumed from the wait for connect_task and wait_stopping.
supervise_after_connect ==
    /\ sup_pc = "connect_wait"
    /\ connect_task \in {"ok", "failed"} \/ wait_stopping = "done"
    /\ IF connect_task = "ok"
       THEN \* start the run task and wait for _running
            /\ run_task' = "active"
            /\ wait_running' = "pending"
            /\ sup_pc' = "running_wait"
            /\ UNCHANGED <<connect_task, started, running, wait_stopping,
                           timeout_fired, failure_task, disconnected,
                           startup_failed, waits, disconnect_count,
                           failure_count>>
       ELSE \* connect_task.result() raises: the exception of _connect, or
            \* InvalidStateError for the task that was cancelled just now
            /\ connect_task' = Cancelled(connect_task)
            /\ EndAttempt(IF connect_task = "failed" THEN "ConnectError"
                          ELSE "InvalidStateError", started)
            /\ UNCHANGED <<run_task, wait_running>>
    /\ UNCHANGED <<config, stop_hist, sleep_interval, stopping, start_pc, raise_after,
                   subscribe_task, stop_pc, exit_code, fault_log,
                   connect_count, subscribe_count>>

\* Lines 119-131: resumed from the wait for wait_running and run_task.
supervise_after_running_wait ==
    /\ sup_pc = "running_wait"
    /\ wait_running = "done" \/ RunDone
    /\ IF wait_running = "done"
       THEN \* call _subscribe
            /\ subscribe_task' = "pending"
            /\ subscribe_count' = subscribe_count + 1
            /\ sup_pc' = "subscribe_wait"
            /\ UNCHANGED <<wait_running, raise_after, started, running,
                           wait_stopping, timeout_fired, failure_task,
                           disconnected, startup_failed, waits,
                           disconnect_count, failure_count>>
       ELSE \* the run task is done (the wait returned), it is not awaited:
            \* RuntimeError
            /\ wait_running' = Cancelled(wait_running)
            /\ raise_after' = "RuntimeError"
            /\ EndAttempt("RuntimeError", started)
            /\ UNCHANGED <<subscribe_task, subscribe_count>>
    /\ UNCHANGED <<config, stop_hist, sleep_interval, stopping, start_pc, connect_task,
                   run_task, stop_pc, exit_code, fault_log, connect_count>>

\* Lines 131-147: resumed from the wait for subscribe_task and run_task.
supervise_after_subscribe_wait ==
    /\ sup_pc = "subscribe_wait"
    /\ subscribe_task \in {"ok", "failed"} \/ RunDone
    /\ CASE subscribe_task = "pending" ->
                \* the run task is done, it is not awaited: RuntimeError
                /\ raise_after' = "RuntimeError"
                /\ EndAttempt("RuntimeError", started)
         [] subscribe_task = "failed" ->
                \* `await self._disconnect()` before the exception is raised
                /\ raise_after' = "SubscribeError"
                /\ disconnect_count' = disconnect_count + 1
                /\ disconnected' = TRUE
                /\ sup_pc' = "disconnect"
                /\ UNCHANGED <<started, running, wait_stopping, timeout_fired,
                               failure_task, startup_failed, waits,
                               failure_count>>
         [] subscribe_task = "ok" ->
                \* startup is reported; `await run_task`
                /\ raise_after' = "none"
                /\ IF RunDone
                   THEN EndAttempt(AwaitRunResult("none"), "ok")
                   ELSE /\ started' = (IF started = "pending" THEN "ok"
                                       ELSE started)
                        /\ sup_pc' = "run_wait"
                        /\ UNCHANGED <<running, wait_stopping, timeout_fired,
                                       failure_task, disconnected,
                                       startup_failed, waits,
                                       disconnect_count, failure_count>>
    /\ UNCHANGED <<config, stop_hist, sleep_interval, stopping, start_pc, connect_task,
                   run_task, wait_running, subscribe_task, stop_pc, exit_code,
                   fault_log, connect_count, subscribe_count>>

\* Lines 138-140: `await self._disconnect()` returns, then `await run_task`.
supervise_disconnect_returns ==
    /\ sup_pc = "disconnect"
    /\ IF RunDone
       THEN EndAttempt(AwaitRunResult(raise_after), started)
       ELSE /\ sup_pc' = "await_run"
            /\ UNCHANGED <<started, running, wait_stopping, timeout_fired,
                           failure_task, disconnected, startup_failed, waits,
                           disconnect_count, failure_count>>
    /\ UNCHANGED <<config, stop_hist, sleep_interval, stopping, start_pc, raise_after,
                   connect_task, run_task, wait_running, subscribe_task,
                   stop_pc, exit_code, fault_log, connect_count,
                   subscribe_count>>

\* Lines 139-140: `await run_task` is resumed; the pending exception is raised
\* unless the run task itself raised.
supervise_run_awaited ==
    /\ sup_pc = "await_run"
    /\ RunDone
    /\ EndAttempt(AwaitRunResult(raise_after), started)
    /\ UNCHANGED <<config, stop_hist, sleep_interval, stopping, start_pc, raise_after,
                   connect_task, run_task, wait_running, subscribe_task,
                   stop_pc, exit_code, fault_log, connect_count,
                   subscribe_count>>

\* Line 147: `await run_task` is resumed after startup was reported.
supervise_run_ended ==
    /\ sup_pc = "run_wait"
    /\ RunDone
    /\ EndAttempt(AwaitRunResult("none"), started)
    /\ UNCHANGED <<config, stop_hist, sleep_interval, stopping, start_pc, raise_after,
                   connect_task, run_task, wait_running, subscribe_task,
                   stop_pc, exit_code, fault_log, connect_count,
                   subscribe_count>>

\* Lines 164-165: `await self._disconnect()` returns and the task ends.
supervise_abort_returns ==
    /\ sup_pc = "abort_disconnect"
    /\ sup_pc' = "done"
    /\ UNCHANGED <<config, stop_hist, sleep_interval, started, stopping, running,
                   start_pc, raise_after, wait_stopping, connect_task,
                   run_task, wait_running, subscribe_task, timeout_fired,
                   stop_pc, failure_task, exit_code, disconnected, fault_log,
                   startup_failed, waits, connect_count, subscribe_count,
                   disconnect_count, failure_count>>

\* Lines 190-197 and the head of the loop: resumed from the backoff sleep,
\* by the timeout or by the task wait_stopping.
supervise_after_sleep ==
    /\ sup_pc = "sleep"
    /\ timeout_fired \/ wait_stopping = "done"
    /\ IF wait_stopping = "done"
       THEN /\ sup_pc' = "done"
            /\ UNCHANGED <<sleep_interval, raise_after, wait_stopping,
                           connect_task, connect_count, disconnected>>
       ELSE /\ sleep_interval' = NextInterval(sleep_interval)
            /\ BeginAttempt
    /\ UNCHANGED <<config, stop_hist, started, stopping, running, start_pc, run_task,
                   wait_running, subscribe_task, timeout_fired, stop_pc,
                   failure_task, exit_code, fault_log, startup_failed, waits,
                   subscribe_count, disconnect_count, failure_count>>

(***************************************************************************)
(* The tasks the supervise task waits for, and the hooks.                  *)
(***************************************************************************)
\* The task of `self._stopping.wait()` ends once the event is set.
wait_stopping_done ==
    /\ wait_stopping = "pending"
    /\ stopping
    /\ wait_stopping' = "done"
    /\ UNCHANGED <<config, stop_hist, sleep_interval, started, stopping, running,
                   start_pc, sup_pc, raise_after, connect_task, run_task,
                   wait_running, subscribe_task, timeout_fired, stop_pc,
                   failure_task, exit_code, disconnected, fault_log,
                   startup_failed, waits, connect_count, subscribe_count,
                   disconnect_count, failure_count>>

\* The task of `self._running.wait()` ends once the event is set.
wait_running_done ==
    /\ wait_running = "pending"
    /\ running
    /\ wait_running' = "done"
    /\ UNCHANGED <<config, stop_hist, sleep_interval, started, stopping, running,
                   start_pc, sup_pc, raise_after, wait_stopping, connect_task,
                   run_task, subscribe_task, timeout_fired, stop_pc,
                   failure_task, exit_code, disconnected, fault_log,
                   startup_failed, waits, connect_count, subscribe_count,
                   disconnect_count, failure_count>>

\* The timeout of `asyncio.wait((wait_stopping,), timeout=sleep_interval)`.
\* The event loop runs its callbacks in the order they were scheduled: once
\* _stopping is set, the step that ends wait_stopping is ahead of a timeout
\* that expires later, so the supervise task finds wait_stopping done.
timeout_expires ==
    /\ sup_pc = "sleep"
    /\ ~timeout_fired
    /\ ~(stopping /\ wait_stopping = "pending")
    /\ timeout_fired' = TRUE
    /\ UNCHANGED <<config, stop_hist, sleep_interval, started, stopping, running,
                   start_pc, sup_pc, raise_after, wait_stopping, connect_task,
                   run_task, wait_running, subscribe_task, stop_pc,
                   failure_task, exit_code, disconnected, fault_log,
                   startup_failed, waits, connect_count, subscribe_count,
                   disconnect_count, failure_count>>

\* A failure of the collaborator is possible while they are not used up.
Fault(kind) ==
    /\ Len(fault_log) < MaxFaults
    /\ fault_log' = Append(fault_log, kind)

\* _connect returns.
connect_returns ==
    /\ connect_task = "pending"
    /\ connect_task' = "ok"
    /\ UNCHANGED <<config, stop_hist, sleep_interval, started, stopping, running,
                   start_pc, sup_pc, raise_after, wait_stopping, run_task,
                   wait_running, subscribe_task, timeout_fired, stop_pc,
                   failure_task, exit_code, disconnected, fault_log,
                   startup_failed, waits, connect_count, subscribe_count,
                   disconnect_count, failure_count>>

\* _connect raises.
connect_raises ==
    /\ connect_task = "pending"
    /\ Fault("connect")
    /\ connect_task' = "failed"
    /\ UNCHANGED <<config, stop_hist, sleep_interval, started, stopping, running,
                   start_pc, sup_pc, raise_after, wait_stopping, run_task,
                   wait_running, subscribe_task, timeout_fired, stop_pc,
                   failure_task, exit_code, disconnected, startup_failed,
                   waits, connect_count, subscribe_count, disconnect_count,
                   failure_count>>

\* _run sets the event _running.
run_sets_running ==
    /\ run_task = "active"
    /\ ~running
    /\ running' = TRUE
    /\ UNCHANGED <<config, stop_hist, sleep_interval, started, stopping, start_pc,
                   sup_pc, raise_after, wait_stopping, connect_task, run_task,
                   wait_running, subscribe_task, timeout_fired, stop_pc,
                   failure_task, exit_code, disconnected, fault_log,
                   startup_failed, waits, connect_count, subscribe_count,
                   disconnect_count, failure_count>>

\* _run returns or raises because _disconnect has been called.
run_stops(result) ==
    /\ run_task = "active"
    /\ disconnected
    /\ run_task' = result
    /\ UNCHANGED <<config, stop_hist, sleep_interval, started, stopping, running,
                   start_pc, sup_pc, raise_after, wait_stopping, connect_task,
                   wait_running, subscribe_task, timeout_fired, stop_pc,
                   failure_task, exit_code, disconnected, fault_log,
                   startup_failed, waits, connect_count, subscribe_count,
                   disconnect_count, failure_count>>

\* _run returns or raises on its own (a client error, a lost connection).
run_fails(result) ==
    /\ run_task = "active"
    /\ ~disconnected
    /\ Fault("run")
    /\ run_task' = result
    /\ UNCHANGED <<config, stop_hist, sleep_interval, started, stopping, running,
                   start_pc, sup_pc, raise_after, wait_stopping, connect_task,
                   wait_running, subscribe_task, timeout_fired, stop_pc,
                   failure_task, exit_code, disconnected, startup_failed,
                   waits, connect_count, subscribe_count, disconnect_count,
                   failure_count>>

\* _subscribe returns.
subscribe_returns ==
    /\ subscribe_task = "pending"
    /\ subscribe_task' = "ok"
    /\ UNCHANGED <<config, stop_hist, sleep_interval, started, stopping, running,
                   start_pc, sup_pc, raise_after, wait_stopping, connect_task,
                   run_task, wait_running, timeout_fired, stop_pc,
                   failure_task, exit_code, disconnected, fault_log,
                   startup_failed, waits, connect_count, subscribe_count,
                   disconnect_count, failure_count>>

\* _subscribe raises.
subscribe_raises ==
    /\ subscribe_task = "pending"
    /\ Fault("subscribe")
    /\ subscribe_task' = "failed"
    /\ UNCHANGED <<config, stop_hist, sleep_interval, started, stopping, running,
                   start_pc, sup_pc, raise_after, wait_stopping, connect_task,
                   run_task, wait_running, timeout_fired, stop_pc,
                   failure_task, exit_code, disconnected, startup_failed,
                   waits, connect_count, subscribe_count, disconnect_count,
                   failure_count>>

(***************************************************************************)
(* stop() and interface_failure                                            *)
(***************************************************************************)
\* handle_signal: `loop.create_task(stop())`, on an interface that has been
\* started.
handle_signal ==
    /\ start_pc # "idle"
    /\ stop_pc["signal"] = "idle"
    /\ stop_pc' = [stop_pc EXCEPT !["signal"] = "scheduled"]
    /\ UNCHANGED <<config, stop_hist, sleep_interval, started, stopping, running,
                   start_pc, sup_pc, raise_after, wait_stopping, connect_task,
                   run_task, wait_running, subscribe_task, timeout_fired,
                   failure_task, exit_code, disconnected, fault_log,
                   startup_failed, waits, connect_count, subscribe_count,
                   disconnect_count, failure_count>>

\* interface_failure, lines 86-89 of supervisor.py.
interface_failure ==
    /\ failure_task = "scheduled"
    /\ failure_task' = "done"
    /\ exit_code' = 1
    /\ stop_pc' = [stop_pc EXCEPT !["failure"] = "scheduled"]
    /\ UNCHANGED <<config, stop_hist, sleep_interval, started, stopping, running,
                   start_pc, sup_pc, raise_after, wait_stopping, connect_task,
                   run_task, wait_running, subscribe_task, timeout_fired,
                   disconnected, fault_log, startup_failed, waits,
                   connect_count, subscribe_count, disconnect_count,
                   failure_count>>

\* stop() of the interface, lines 34-37, called by the stop() task c.
stop(c) ==
    /\ stop_pc[c] = "scheduled"
    /\ IF stopping
       THEN /\ stop_pc' = [stop_pc EXCEPT ![c] = "done"]
            /\ UNCHANGED <<stopping, disconnected, disconnect_count,
                           stop_state>>
       ELSE /\ stopping' = TRUE
            /\ stop_state' = sup_pc
            /\ disconnect_count' = disconnect_count + 1
            /\ disconnected' = TRUE
            /\ stop_pc' = [stop_pc EXCEPT ![c] = "disconnect"]
    /\ UNCHANGED <<config, sleep_interval, started, running, start_pc, sup_pc,
                   raise_after, wait_stopping, connect_task, run_task,
                   wait_running, subscribe_task, timeout_fired, failure_task,
                   exit_code, fault_log, startup_failed, waits, connect_count,
                   subscribe_count, failure_count>>

\* Lines 37-39: _disconnect returns; `await self._supervise_task` returns at
\* once if the task is done.
stop_disconnect_returns(c) ==
    /\ stop_pc[c] = "disconnect"
    /\ stop_pc' = [stop_pc EXCEPT ![c] = IF sup_pc = "done" THEN "done"
                                         ELSE "await_supervise"]
    /\ UNCHANGED <<config, stop_hist, sleep_interval, started, stopping, running,
                   start_pc, sup_pc, raise_after, wait_stopping, connect_task,
                   run_task, wait_running, subscribe_task, timeout_fired,
                   failure_task, exit_code, disconnected, fault_log,
                   startup_failed, waits, connect_count, subscribe_count,
                   disconnect_count, failure_count>>

\* Line 39: `await self._supervise_task` is resumed, stop() returns.
stop_returns(c) ==
    /\ stop_pc[c] = "await_supervise"
    /\ sup_pc = "done"
    /\ stop_pc' = [stop_pc EXCEPT ![c] = "done"]
    /\ UNCHANGED <<config, stop_hist, sleep_interval, started, stopping, running,
                   start_pc, sup_pc, raise_after, wait_stopping, connect_task,
                   run_task, wait_running, subscribe_task, timeout_fired,
                   failure_task, exit_code, disconnected, fault_log,
                   startup_failed, waits, connect_count, subscribe_count,
                   disconnect_count, failure_count>>

RunResults == {"returned", "raised"}

(***************************************************************************)
(* supervisor.py: main(), run() and stop() of the process, with two        *)
(* registered interfaces: the supervised client interface above and a      *)
(* second one of which only the outcome of start() and stop() is known.    *)
(***************************************************************************)
\* Module level of supervisor.py, lines 24-29: the stop event is set until
\* run() clears it.
InitProc ==
    /\ shc_stopped = TRUE
    /\ main_pc = "idle"
    /\ main_code = 0
    /\ run_pc = "idle"
    /\ startup_events = {}
    /\ other_start = "none"
    /\ other_stop = [c \in StopTasks |-> "none"]
    /\ timer_stop = [c \in StopTasks |-> "none"]
    /\ stop_set = [c \in StopTasks |-> FALSE]

\* The event loop runs callbacks from run_until_complete until main() has
\* returned or raised.
LoopRunning == main_pc = "running"

\* A gather that is resumed as soon as one start() has returned.
FirstStartCompleted ==
    IF start_pc = "raised" \/ other_start = "raised" THEN "raised"
    ELSE IF start_pc = "returned" \/ other_start = "returned" THEN "returned"
    ELSE "pending"

\* `await asyncio.gather(*(interface.start() ...))`, line 95: the first
\* exception of a start() is raised at once, the list of results is returned
\* when every start() has returned.
StartsGathered ==
    IF start_pc = "raised" \/ other_start = "raised" THEN "raised"
    ELSE IF start_pc = "returned" /\ other_start = "returned" THEN "returned"
    ELSE "pending"

\* A main() that reports success whatever _EXIT_CODE holds.
ExitCodeIgnored(code) == 0

\* `return _EXIT_CODE`, line 141.
ReturnedExitCode(code) == code

\* `await asyncio.gather(..., return_exceptions=True)`, lines 107-108, of the
\* stop() task c is resumed: each stop() it called has returned or raised.
StopsGathered(c) ==
    /\ stop_pc[c] = "done"
    /\ other_stop[c] \in {"returned", "raised"}
    /\ timer_stop[c] = "returned"

\* main(), lines 138-140, up to the first suspension of run(), lines 93-95:
\* the stop event is cleared and start() of every interface is called in a
\* task of its own.
main_begins ==
    /\ main_pc = "idle"
    /\ main_pc' = "running"
    /\ shc_stopped' = FALSE
    /\ run_pc' = "starting"
    /\ other_start' = "running"
    /\ UNCHANGED <<main_code, startup_events, other_stop, timer_stop, stop_set>>

\* start() of the second interface returns or raises.
other_start_ends(result) ==
    /\ other_start = "running"
    /\ other_start' = result
    /\ UNCHANGED <<shc_stopped, main_pc, main_code, run_pc, startup_events,
                   other_stop, timer_stop, stop_set>>

\* Lines 95-97: the gather of the start() calls is resumed; run() calls
\* read_initialize_variables or ends with the exception.
run_after_starts ==
    /\ run_pc = "starting"
    /\ StartsGathered # "pending"
    /\ run_pc' = IF StartsGathered = "raised" THEN "raised"
                 ELSE "init_variables"
    /\ startup_events' = IF StartsGathered = "raised" THEN startup_events
                         ELSE startup_events \cup {"variables_called"}
    /\ UNCHANGED <<shc_stopped, main_pc, main_code, other_start, other_stop,
                   timer_stop, stop_set>>

\* Lines 97-99: read_initialize_variables returns or raises; run() calls
\* timer_supervisor.start() or ends with the exception.
run_after_variables(result) ==
    /\ run_pc = "init_variables"
    /\ run_pc' = IF result = "raised" THEN "raised" ELSE "start_timers"
    /\ startup_events' =
           IF result = "raised" THEN startup_events
           ELSE startup_events \cup {"variables_done", "timers_called"}
    /\ UNCHANGED <<shc_stopped, main_pc, main_code, other_start, other_stop,
                   timer_stop, stop_set>>

\* Lines 99-102: timer_supervisor.start() returns or raises; run() waits for
\* the stop event, which does not suspend it if the event is set already.
run_after_timers(result) ==
    /\ run_pc = "start_timers"
    /\ run_pc' = IF result = "raised" THEN "raised"
                 ELSE IF shc_stopped THEN "returned"
                 ELSE "blocked"
    /\ startup_events' = IF result = "raised" THEN startup_events
                         ELSE startup_events \cup {"timers_done"}
    /\ UNCHANGED <<shc_stopped, main_pc, main_code, other_start, other_stop,
                   timer_stop, stop_set>>

\* Line 102: `await _SHC_STOPPED.wait()` is resumed, run() returns.
run_returns ==
    /\ run_pc = "blocked"
    /\ shc_stopped
    /\ run_pc' = "returned"
    /\ UNCHANGED <<shc_stopped, main_pc, main_code, startup_events, other_start, other_stop,
                   timer_stop, stop_set>>

\* Lines 140-141: run_until_complete returns, main() returns _EXIT_CODE.
main_returns ==
    /\ main_pc = "running"
    /\ run_pc = "returned"
    /\ main_pc' = "returned"
    /\ main_code' = ReturnedExitCode(exit_code)
    /\ UNCHANGED <<shc_stopped, run_pc, startup_events, other_start, other_stop, timer_stop,
                   stop_set>>

\* Line 140: run_until_complete raises the exception of run().
main_raises ==
    /\ main_pc = "running"
    /\ run_pc = "raised"
    /\ main_pc' = "raised"
    /\ UNCHANGED <<shc_stopped, main_code, run_pc, startup_events, other_start, other_stop,
                   timer_stop, stop_set>>

\* Line 107: the stop() task c calls stop() of the second interface.
other_stop_begins(c) ==
    /\ stop_pc[c] # "idle"
    /\ other_stop[c] = "none"
    /\ other_stop' = [other_stop EXCEPT ![c] = "running"]
    /\ UNCHANGED <<shc_stopped, main_pc, main_code, run_pc, startup_events, other_start,
                   timer_stop, stop_set>>

\* stop() of the second interface returns or raises.
other_stop_ends(c, result) ==
    /\ other_stop[c] = "running"
    /\ other_stop' = [other_stop EXCEPT ![c] = result]
    /\ UNCHANGED <<shc_stopped, main_pc, main_code, run_pc, startup_events, other_start,
                   timer_stop, stop_set>>

\* Line 107 of supervisor.py and stop() of the timer supervisor, lines 26-29
\* of timer.py: called by the stop() task c, it cancels the timer tasks and
\* returns without being suspended.
timer_stop_ends(c) ==
    /\ stop_pc[c] # "idle"
    /\ timer_stop[c] = "none"
    /\ timer_stop' = [timer_stop EXCEPT ![c] = "returned"]
    /\ UNCHANGED <<shc_stopped, main_pc, main_code, run_pc, startup_events, other_start,
                   other_stop, stop_set>>

\* Lines 107-109: the gather of the stop() task c is resumed, the task sets
\* the stop event.
stop_sets_event(c) ==
    /\ StopsGathered(c)
    /\ ~stop_set[c]
    /\ stop_set' = [stop_set EXCEPT ![c] = TRUE]
    /\ shc_stopped' = TRUE
    /\ UNCHANGED <<main_pc, main_code, run_pc, startup_events, other_start, other_stop,
                   timer_stop>>

(***************************************************************************)
(* web/__init__.py: WebApiObject and the handlers of the REST API.  One    *)
(* API object of type int, registered under one name, polled by the        *)
(* clients and written by the object it is connected to.                   *)
(***************************************************************************)
\* Number of clients of the REST API.
NumClients == 1
\* Largest number of GET requests of one client.
MaxGets == 3
\* Largest number of values passed to _publish_http.
MaxWrites == 2
\* Largest number of POST requests.
MaxPosts == 1

Clients == 1 .. NumClients

\* Python values: None, the int n, and the str of the decimal digits of n.
PyNone == [type |-> "NoneType", v |-> 0]
PyInt(n) == [type |-> "int", v |-> n]
PyStr(n) == [type |-> "str", v |-> n]

\* id(self.future): futures are named by the order of their creation.
id(f) == PyInt(f)

\* str(x) of an int.
str(x) == PyStr(x.v)

\* The request bodies: a JSON number, a JSON string, and text that is no JSON.
Bodies == {[text |-> "number", v |-> n] : n \in 1 .. MaxPosts}
              \cup {[text |-> "string", v |-> 0], [text |-> "garbage", v |-> 0]}

\* json.loads(text), lines 368-373: the decoded data or JSONDecodeError.
json_loads(body) ==
    IF body.text = "garbage" THEN [error |-> "JSONDecodeError"]
    ELSE IF body.text = "number" THEN [error |-> "none", data |-> PyInt(body.v)]
    ELSE [error |-> "none", data |-> PyStr(body.v)]

\* from_json(int, data): the int, or TypeError for data that is no number.
from_json(data) ==
    IF data.type = "int" THEN [error |-> "none", value |-> data]
    ELSE [error |-> "TypeError"]

\* The names a request can carry: that of the registered object or another.
Names == {"known", "unknown"}

\* Lines 357-364: the status of the response to a GET.
GetStatus(changed, value) ==
    IF ~changed THEN 304
    ELSE IF value # PyNone THEN 200
    ELSE 409

\* WebApiObject.__init__, lines 605-610, of an object connected to a provider
\* that has no value yet.
InitWeb ==
    /\ future = 1
    /\ futures = <<[state |-> "pending", result |-> PyNone]>>
    /\ provider_value = PyNone
    /\ g_pc = [c \in Clients |-> "idle"]
    /\ g_future = [c \in Clients |-> 0]
    /\ g_elapsed = [c \in Clients |-> FALSE]
    /\ g_request = [c \in Clients |-> PyNone]
    /\ responses = [c \in Clients |-> << >>]
    /\ written = << >>
    /\ write_errors = 0
    /\ published = << >>
    /\ posts = << >>

\* The ETag header of the last response to client c, None before the first.
LastEtag(c) ==
    IF responses[c] = << >> THEN PyNone
    ELSE responses[c][Len(responses[c])].etag

\* The response record of a GET of client c that returns now.
Response(c, wait, etag_match, asked, writes_before, changed, value, elapsed) ==
    [wait |-> wait,
     etag_match |-> etag_match,
     asked |-> asked,
     previous |-> LastEtag(c),
     writes_before |-> writes_before,
     writes_after |-> Len(written),
     changed |-> changed,
     value |-> value,
     etag |-> str(id(future)),
     status |-> GetStatus(changed, value),
     elapsed |-> elapsed]

\* _api_get_handler, lines 329-364, with http_get, lines 665-677, up to its
\* return or to its suspension in asyncio.wait_for.
http_get(c, wait, etag_match) ==
    /\ g_pc[c] = "idle"
    /\ Len(responses[c]) < MaxGets
    /\ IF ~wait /\ etag_match = str(id(future))
       THEN /\ responses' = [responses EXCEPT ![c] = Append(@,
                   Response(c, wait, etag_match, future, Len(written),
                            FALSE, PyNone, FALSE))]
            /\ UNCHANGED <<g_pc, g_future, g_elapsed, g_request>>
       ELSE IF ~wait \/ (etag_match # PyNone /\ etag_match # id(future))
       THEN /\ responses' = [responses EXCEPT ![c] = Append(@,
                   Response(c, wait, etag_match, future, Len(written),
                            TRUE, provider_value, FALSE))]
            /\ UNCHANGED <<g_pc, g_future, g_elapsed, g_request>>
       ELSE IF futures[future].state = "cancelled"
       THEN /\ responses' = [responses EXCEPT ![c] = Append(@,
                   Response(c, wait, etag_match, future, Len(written),
                            FALSE, PyNone, FALSE))]
            /\ UNCHANGED <<g_pc, g_future, g_elapsed, g_request>>
       ELSE /\ g_pc' = [g_pc EXCEPT ![c] = "waiting"]
            /\ g_future' = [g_future EXCEPT ![c] = future]
            /\ g_elapsed' = [g_elapsed EXCEPT ![c] = FALSE]
            /\ g_request' = [g_request EXCEPT ![c] =
                   [etag_match |-> etag_match, writes_before |-> Len(written)]]
            /\ UNCHANGED responses
    /\ UNCHANGED <<future, futures, provider_value, written, write_errors,
                   published, posts>>

\* The timeout of asyncio.wait_for, line 674, of client c expires.
get_timeout_expires(c) ==
    /\ g_pc[c] = "waiting"
    /\ ~g_elapsed[c]
    /\ g_elapsed' = [g_elapsed EXCEPT ![c] = TRUE]
    /\ UNCHANGED <<future, futures, provider_value, g_pc, g_future, g_request,
                   responses, written, write_errors, published, posts>>

\* Lines 673-677: asyncio.wait_for is resumed.  It returns the result of the
\* future, raises CancelledError if the future was cancelled, or, the timeout
\* having expired, cancels the future and raises TimeoutError.
http_get_resumes(c) ==
    /\ g_pc[c] = "waiting"
    /\ LET f == g_future[c]
           st == futures[f].state
       IN  /\ st # "pending" \/ g_elapsed[c]
           /\ futures' = IF st = "pending"
                         THEN [futures EXCEPT ![f].state = "cancelled"]
                         ELSE futures
           /\ responses' = [responses EXCEPT ![c] = Append(@,
                  Response(c, TRUE, g_request[c].etag_match, f,
                           g_request[c].writes_before,
                           st = "done",
                           IF st = "done" THEN futures[f].result ELSE PyNone,
                           g_elapsed[c]))]
    /\ g_pc' = [g_pc EXCEPT ![c] = "idle"]
    /\ UNCHANGED <<future, provider_value, g_future, g_elapsed, g_request,
                   written, write_errors, published, posts>>

\* _publish_http, lines 619-626, with no websocket subscribed: set_result
\* raises InvalidStateError on a cancelled future, otherwise the future is
\* resolved and replaced.
PublishHttp(value) ==
    /\ written' = Append(written, value)
    /\ IF futures[future].state = "pending"
       THEN /\ futures' = Append([futures EXCEPT ![future] =
                                     [state |-> "done", result |-> value]],
                                 [state |-> "pending", result |-> PyNone])
            /\ future' = future + 1
            /\ UNCHANGED write_errors
       ELSE /\ write_errors' = write_errors + 1
            /\ UNCHANGED <<future, futures>>

\* The object's future has been cancelled: set_result will raise.
PublishHttpRaises == futures[future].state # "pending"

\* The provider of the object publishes a new value: it holds the value, and
\* _write, lines 612-613, passes it to _publish_http.
api_write ==
    /\ Len(written) < MaxWrites + Len(posts)
    /\ provider_value' = PyInt(Len(written) + 1)
    /\ PublishHttp(PyInt(Len(written) + 1))
    /\ UNCHANGED <<g_pc, g_future, g_elapsed, g_request, responses, published,
                   posts>>

\* _api_post_handler, lines 366-390, with http_post, lines 615-617.
http_post(body, name) ==
    /\ Len(posts) < MaxPosts
    /\ LET loaded == json_loads(body)
           decoded == from_json(loaded.data)
           outcome(status, pub) ==
               [body |-> body, name |-> name, status |-> status,
                published |-> pub, future_before |-> future,
                future_after |-> future', state_after |-> futures'[future].state]
       IN  IF loaded.error # "none"
           THEN /\ UNCHANGED <<future, futures, provider_value, written,
                               write_errors, published>>
                /\ posts' = Append(posts, outcome(400, FALSE))
           ELSE IF name # "known"
           THEN /\ UNCHANGED <<future, futures, provider_value, written,
                               write_errors, published>>
                /\ posts' = Append(posts, outcome(404, FALSE))
           ELSE IF decoded.error # "none"
           THEN /\ UNCHANGED <<future, futures, provider_value, written,
                               write_errors, published>>
                /\ posts' = Append(posts, outcome(422, FALSE))
           ELSE /\ published' = Append(published,
                       [value |-> decoded.value, origin |-> <<Len(posts) + 1>>])
                /\ provider_value' = decoded.value
                /\ PublishHttp(loaded.data)
                /\ posts' = Append(posts,
                       outcome(IF PublishHttpRaises THEN 500 ELSE 204, TRUE))
    /\ UNCHANGED <<g_pc, g_future, g_elapsed, g_request, responses>>

(***************************************************************************)
(* log/generic.py: aggregate() and the aggregator classes.  Timestamps are *)
(* whole seconds, a timedelta is a number of seconds; a bool is the int 0  *)
(* or 1, as in Python; the float a division returns is kept as the         *)
(* fraction <<numerator, denominator>>.                                    *)
(***************************************************************************)
\* Largest number of entries of the log passed to aggregate().
MaxSamples == 2
\* Largest timestamp of an entry and largest end_time.
MaxTime == 4
\* Largest logged value.
MaxValue == 1
\* Largest aggregation_interval.
MaxInterval == 2

\* AggregationMethod, the members aggregate() accepts (lines 294-307).
AggregationMethods ==
    {"MINIMUM", "MAXIMUM", "AVERAGE", "ON_TIME", "ON_TIME_RATIO"}

\* math.ceil(a / b) for b > 0, line 287.
CeilDiv(a, b) == IF a % b = 0 THEN a \div b ELSE (a \div b) + 1

\* The time a value lasted taken from its entry on, not from the begin of the
\* interval.
Unclipped(a, b) == a

\* max(a, b), line 359.
MaxOf(a, b) == IF a >= b THEN a ELSE b

\* bool(value): a number is truthy unless it is zero.
Truthy(value) == value # 0

\* Lines 286-292: the start of every aggregation interval, and end_time as the
\* end of the last one.
aggregation_timestamps(start_time, end_time, interval) ==
    LET n == CeilDiv(end_time - start_time, interval)
        ts == [i \in 1 .. n |-> start_time + (i - 1) * interval]
    IN  IF ts[n] < end_time THEN Append(ts, end_time) ELSE ts

\* A sum that counts every value once, whatever the time it lasted.
Unweighted(value, delta_seconds) == value

\* `value * delta_seconds`, line 435.
Weighted(value, delta_seconds) == value * delta_seconds

\* reset() of the aggregator of a method: lines 425-427, 446-447, 464-465,
\* 482-483 and 502-504.
Reset(method) ==
    CASE method = "AVERAGE" -> [value_sum |-> 0, time_sum |-> 0]
      [] method = "MINIMUM" -> [inf |-> TRUE, value |-> 0]
      [] method = "MAXIMUM" -> [inf |-> TRUE, value |-> 0]
      [] method = "ON_TIME" -> [value |-> 0]
      [] method = "ON_TIME_RATIO" -> [value |-> 0, total_time |-> 0]

\* aggregate(start, end, value) of the aggregator of a method: lines 432-435,
\* 452-453, 470-471, 488-490 and 509-513.
Accumulate(method, acc, t_start, t_end, value) ==
    CASE method = "AVERAGE" ->
             [value_sum |-> acc.value_sum + Weighted(value, t_end - t_start),
              time_sum |-> acc.time_sum + (t_end - t_start)]
      [] method = "MINIMUM" ->
             [inf |-> FALSE,
              value |-> IF acc.inf \/ value < acc.value THEN value
                        ELSE acc.value]
      [] method = "MAXIMUM" ->
             [inf |-> FALSE,
              value |-> IF acc.inf \/ value > acc.value THEN value
                        ELSE acc.value]
      [] method = "ON_TIME" ->
             [value |-> IF Truthy(value) THEN acc.value + (t_end - t_start)
                        ELSE acc.value]
      [] method = "ON_TIME_RATIO" ->
             [value |-> IF Truthy(value) THEN acc.value + (t_end - t_start)
                        ELSE acc.value,
              total_time |-> acc.total_time + (t_end - t_start)]

\* get() of the aggregator of a method: lines 429-430, 449-450, 467-468,
\* 485-486 and 506-507.  A division by zero raises ZeroDivisionError.
Get(method, acc) ==
    CASE method = "AVERAGE" ->
             IF acc.time_sum = 0 THEN <<"ZeroDivisionError">>
             ELSE <<acc.value_sum, acc.time_sum>>
      [] method = "MINIMUM" -> IF acc.inf THEN <<"inf">> ELSE <<acc.value, 1>>
      [] method = "MAXIMUM" -> IF acc.inf THEN <<"-inf">> ELSE <<acc.value, 1>>
      [] method = "ON_TIME" -> <<acc.value, 1>>
      [] method = "ON_TIME_RATIO" ->
             IF acc.total_time = 0 THEN <<"ZeroDivisionError">>
             ELSE <<acc.value, acc.total_time>>

\* An aggregation that begins with the first interval wherever the first
\* entry lies.
NoIntervalSkipped(bounds, last_ts, index) == index

\* Lines 320-323: the index of the first aggregation timestamp after the
\* first entry, or the length of the list if there is none.  The list index k
\* of the code is the index k + 1 of the sequence.
RECURSIVE SkipIntervals(_, _, _)
SkipIntervals(bounds, last_ts, index) ==
    IF index >= Len(bounds) THEN index
    ELSE IF last_ts >= bounds[index + 1]
    THEN SkipIntervals(bounds, last_ts, index + 1)
    ELSE index

\* Lines 345-348 and 375-378: the entry of an interval in which the value did
\* not change.
EmptyInterval(method, bounds, st) ==
    <<bounds[st.index],
      Get(method, Accumulate(method, Reset(method), bounds[st.index],
                             bounds[st.index + 1], st.last_value))>>

\* Lines 344-352: the intervals that end before the entry at ts and hold no
\* entry of their own.
RECURSIVE FollowingEmptyIntervals(_, _, _, _)
FollowingEmptyIntervals(method, bounds, st, ts) ==
    IF ts >= bounds[st.index + 1]
    THEN LET next == [st EXCEPT
                 !.result = Append(@, EmptyInterval(method, bounds, st)),
                 !.index = @ + 1]
         IN  IF next.index >= Len(bounds)
             THEN [next EXCEPT !.returned = TRUE]
             ELSE FollowingEmptyIntervals(method, bounds, next, ts)
    ELSE st

\* Lines 334-337 and 366-369: the rest of the current interval is added and
\* its entry appended, unless no interval has begun.
FinishInterval(method, bounds, st) ==
    IF st.index > 0
    THEN LET acc == Accumulate(method, st.acc, st.last_ts,
                               bounds[st.index + 1], st.last_value)
         IN  [st EXCEPT !.acc = acc,
                        !.result = Append(@, <<bounds[st.index],
                                               Get(method, acc)>>)]
    ELSE st

\* Lines 357-362: the time the last value lasted within the current interval
\* is added, and the entry becomes the last one.
AddEntry(method, bounds, st, entry) ==
    [st EXCEPT
        !.acc = IF st.index > 0
                THEN Accumulate(method, st.acc,
                                MaxOf(st.last_ts, bounds[st.index]),
                                entry[1], st.last_value)
                ELSE st.acc,
        !.last_ts = entry[1],
        !.last_value = entry[2]]

\* Lines 328-362: one iteration of the loop over the entries.
LoopBody(method, bounds, st, entry) ==
    IF entry[1] >= bounds[st.index + 1]
    THEN LET finished == FinishInterval(method, bounds, st)
             advanced == [finished EXCEPT !.index = @ + 1]
         IN  IF advanced.index >= Len(bounds)
             THEN [advanced EXCEPT !.returned = TRUE]
             ELSE LET filled == FollowingEmptyIntervals(method, bounds,
                                                        advanced, entry[1])
                  IN  IF filled.returned THEN filled
                      ELSE AddEntry(method, bounds,
                                    [filled EXCEPT !.acc = Reset(method)],
                                    entry)
    ELSE AddEntry(method, bounds, st, entry)

\* Lines 328-362: the loop over the entries from the i-th on.
RECURSIVE Loop(_, _, _, _, _)
Loop(method, bounds, data, i, st) ==
    IF st.returned \/ i > Len(data) THEN st
    ELSE Loop(method, bounds, data, i + 1,
              [LoopBody(method, bounds, st, data[i]) EXCEPT !.read = i])

\* Lines 374-380: the intervals after the last entry.
RECURSIVE RemainingIntervals(_, _, _)
RemainingIntervals(method, bounds, st) ==
    IF st.index < Len(bounds)
    THEN RemainingIntervals(method, bounds,
             [st EXCEPT !.result = Append(@, EmptyInterval(method, bounds, st)),
                        !.index = @ + 1])
    ELSE st

\* The values of the type argument: int, float, its subclass bool, and str.
Types == {"int", "float", "bool", "str"}

\* `issubclass(type, (int, float))`, line 295.
IsNumber(type) == type \in {"int", "float", "bool"}

\* An aggregation method that is none of the members aggregate() knows.
Unsupported == "UNSUPPORTED"

\* Lines 286-299: the exception raised before the aggregator is made, or
\* "none".  `aggregation_timestamps[-1]` of line 291 raises IndexError if the
\* list is empty, which it is unless start_time < end_time.
Checks(type, start_time, end_time, aggregation_method, aggregation_interval) ==
    IF CeilDiv(end_time - start_time, aggregation_interval) <= 0
    THEN "IndexError"
    ELSE IF aggregation_method \in {"MINIMUM", "MAXIMUM", "AVERAGE"}
    THEN IF ~IsNumber(type) THEN "TypeError" ELSE "none"
    ELSE IF aggregation_method \notin {"ON_TIME", "ON_TIME_RATIO"}
    THEN "ValueError"
    ELSE "none"

\* aggregate(), lines 301-381, once the checks have passed: the list it
\* returns and the number of entries it has read from the log.
aggregate(data, start_time, end_time, aggregation_method, aggregation_interval) ==
    LET bounds == aggregation_timestamps(start_time, end_time,
                                         aggregation_interval)
    IN  IF data = << >> THEN [result |-> << >>, read |-> 0]
        ELSE LET index == SkipIntervals(bounds, data[1][1], 0)
             IN  IF index >= Len(bounds) THEN [result |-> << >>, read |-> 1]
                 ELSE LET st == Loop(aggregation_method, bounds, data, 2,
                                  [index |-> index,
                                   last_ts |-> data[1][1],
                                   last_value |-> data[1][2],
                                   result |-> << >>,
                                   acc |-> Reset(aggregation_method),
                                   returned |-> FALSE,
                                   read |-> 1])
                      IN  IF st.returned THEN st
                          ELSE RemainingIntervals(aggregation_method, bounds,
                                   [FinishInterval(aggregation_method, bounds, st)
                                        EXCEPT !.index = @ + 1])

\* The logs with at most MaxSamples entries, sorted by timestamp.
Logs ==
    UNION {{d \in [1 .. n -> (0 .. MaxTime) \X (0 .. MaxValue)] :
               \A i \in 1 .. n - 1 : d[i][1] <= d[i + 1][1]} :
           n \in 0 .. MaxSamples}

\* The worked examples: a numeric log and a boolean log, each with the
\* arguments of its query.
Examples ==
    {[data |-> <<(<<0, 0>>), (<<30, 10>>), (<<60, 20>>)>>, type |-> "int",
      start |-> 0, end |-> 120, method |-> "AVERAGE", interval |-> 60],
     [data |-> <<(<<0, 0>>), (<<20, 1>>), (<<50, 0>>)>>, type |-> "bool",
      start |-> 0, end |-> 60, method |-> "ON_TIME", interval |-> 60],
     [data |-> <<(<<0, 0>>), (<<20, 1>>), (<<50, 0>>)>>, type |-> "bool",
      start |-> 0, end |-> 60, method |-> "ON_TIME_RATIO", interval |-> 60]}

\* The calls of aggregate() with a log and a time range within the bounds.
\* The result depends on the differences of the times only, so that a range
\* that begins at 0 or, with room for entries before it, at 1 stands for all.
BoundedCalls ==
    {[data |-> d, type |-> "int", start |-> r[1], end |-> r[2], method |-> m,
      interval |-> v] :
        d \in Logs,
        r \in {q \in (0 .. 1) \X (1 .. MaxTime) : q[1] < q[2]},
        m \in AggregationMethods, v \in 1 .. MaxInterval}

\* The calls of aggregate() with any type, any method and any time range, an
\* empty one among them, and with a log of no entry or of one.
AnyCalls ==
    {[data |-> d, type |-> ty, start |-> r[1], end |-> r[2], method |-> m,
      interval |-> v] :
        d \in {<< >>, <<(<<0, 1>>)>>},
        ty \in Types,
        r \in (0 .. 1) \X (0 .. 2),
        m \in AggregationMethods \cup {Unsupported}, v \in 1 .. MaxInterval}

\* No call of aggregate() is made.
IdleAggregate ==
    /\ agg_call = [data |-> << >>, type |-> "int", start |-> 0, end |-> 1,
                   method |-> "AVERAGE", interval |-> 1]
    /\ agg_pc = "idle"
    /\ agg_result = << >>
    /\ agg_error = "none"
    /\ agg_read = 0

\* A call of aggregate() is about to be made.
InitAggregate ==
    /\ agg_call \in BoundedCalls \cup Examples \cup AnyCalls
    /\ agg_pc = "called"
    /\ agg_result = << >>
    /\ agg_error = "none"
    /\ agg_read = 0

\* The exception the checks of the call raise, or "none".
CallChecks ==
    Checks(agg_call.type, agg_call.start, agg_call.end, agg_call.method,
           agg_call.interval)

\* aggregate() returns.
aggregate_returns ==
    /\ agg_pc = "called"
    /\ CallChecks = "none"
    /\ agg_pc' = "returned"
    /\ LET run == aggregate(agg_call.data, agg_call.start, agg_call.end,
                            agg_call.method, agg_call.interval)
       IN  /\ agg_result' = run.result
           /\ agg_read' = run.read
    /\ UNCHANGED <<agg_call, agg_error>>

\* aggregate() raises an exception in line 291, 296 or 299.
aggregate_raises ==
    /\ agg_pc = "called"
    /\ CallChecks # "none"
    /\ agg_pc' = "raised"
    /\ agg_error' = CallChecks
    /\ UNCHANGED <<agg_call, agg_result, agg_read>>

(***************************************************************************)
(* log/generic.py: LiveDataLogView and retrieve_log_sync.  One live view   *)
(* of a data-log variable; if the variable is a WritableDataLogVariable it *)
(* is the one modelled above and the view is its subscriber.  The entries  *)
(* a retrieval returns are those with a timestamp in its time range; a     *)
(* retrieval is named by its range.                                        *)
(***************************************************************************)
\* Largest value of the clock.
MaxClock == 2
\* Largest number of _update tasks.
MaxUpdates == 2
\* Largest number of _write calls on a variable with a live view.
ViewWrites == 2
\* Number of get_current_view calls, each in a task of its own.
NumViewers == 1

\* self.interval and self.aggregation_interval of the view, in seconds, and
\* self.align_to, in seconds of the clock.
ViewInterval == 2
ViewAggregationInterval == 1
ViewAlignTo == 0

Updates == 1 .. MaxUpdates
Viewers == 1 .. NumViewers

\* The tasks in the queue of a lock are named by numbers: a writer by its
\* own, a get_current_view call by the numbers after the writers (for the
\* mutex of the variable) or after the _update tasks (for that of the view).
SyncTask(c) == NumWriters + c
ViewTask(c) == MaxUpdates + c

\* Optional[datetime]: None, or the time t.
NoTimestamp == [none |-> TRUE, t |-> 0]
Timestamp(t) == [none |-> FALSE, t |-> t]

\* A view that takes push updates from every writable data log.
PushWhenWritable(writable, external_updates, aggregation) == writable

\* Line 145: `self.push = isinstance(data_log, WritableDataLogVariable) and
\* not external_updates and aggregation is None`.
PushMode(writable, external_updates, aggregation) ==
    writable /\ ~external_updates /\ ~aggregation

\* self.push of the view.
Push == PushMode(view_writable, view_external, view_aggregation)

\* Line 225: `self._last_retrieved_timestamp if self._last_retrieved_timestamp
\* else end - self.interval`.
BeginOfUpdate(last, end) == IF ~last.none THEN last.t ELSE end - ViewInterval

\* _data_retrieval_interval(for_update), lines 210-237, at the time now.
DataRetrievalInterval(for_update, now) ==
    IF Push THEN <<now - ViewInterval, now>>
    ELSE LET last == last_retrieved_timestamp
             end == IF ~for_update /\ ~last.none THEN last.t ELSE now
             preliminary_begin ==
                 IF for_update /\ ~last.none
                 THEN last.t - ViewAggregationInterval
                 ELSE now - ViewInterval
             align_count ==
                 (preliminary_begin - ViewAlignTo) \div ViewAggregationInterval
         IN  IF ~view_aggregation
             THEN IF for_update THEN <<BeginOfUpdate(last, end), end>>
                  ELSE <<now - ViewInterval, end>>
             ELSE <<ViewAlignTo + (align_count + 1) * ViewAggregationInterval,
                    end>>

\* The time range get_current_view retrieves in poll mode, lines 190-199:
\* without aggregation the begin is taken from the clock once more.
CurrentViewInterval(now) ==
    IF view_aggregation THEN DataRetrievalInterval(FALSE, now)
    ELSE <<now - ViewInterval, DataRetrievalInterval(FALSE, now)[2]>>

\* The argument of a _process_new_logvalues call: the batch of a flush, or
\* the entries of a time range.
Batch(values) == [kind |-> "batch", batch |-> values, range |-> <<0, 0>>,
                  returned |-> FALSE]
Range(r) == [kind |-> "range", batch |-> << >>, range |-> r,
             returned |-> FALSE]

\* LiveDataLogView.__init__, lines 135-158, with any arguments; a view of a
\* WritableDataLogVariable subscribes to it (line 147).
InitView ==
    /\ clock = 0
    /\ view_writable \in BOOLEAN
    /\ view_external \in BOOLEAN
    /\ view_aggregation \in BOOLEAN
    /\ last_retrieved_timestamp = NoTimestamp
    /\ view_locked = FALSE
    /\ view_waiters = << >>
    /\ view_woken = FALSE
    /\ updates_created = 0
    /\ u_pc = [u \in Updates |-> "idle"]
    /\ u_range = [u \in Updates |-> <<0, 0>>]
    /\ c_pc = [c \in Viewers |-> "idle"]
    /\ c_range = [c \in Viewers |-> <<0, 0>>]
    /\ c_seen = [c \in Viewers |-> 0]
    /\ processed = << >>
    /\ notified = {}

\* No live view exists.
IdleView ==
    /\ InitView
    /\ ~view_writable
    /\ ~view_external
    /\ ~view_aggregation

\* The variables of the view a step of the clock, of a task of the view or
\* of the variable leaves alone.
view_config == <<view_writable, view_external, view_aggregation>>
view_mutex == <<view_locked, view_waiters, view_woken>>
view_updates == <<updates_created, u_pc, u_range>>
view_calls == <<c_pc, c_range, c_seen>>

\* What an acquisition or a release of the mutex of the variable by a
\* reader leaves alone.
log_beside_mutex == <<pending_values, flushing_finished, events_set,
                      data_log_subscribers, flushes, w_pc, w_event, w_flush,
                      w_exc, calls, during>>

\* Time passes.
tick ==
    /\ clock < MaxClock
    /\ clock' = clock + 1
    /\ UNCHANGED <<view_config, last_retrieved_timestamp, view_mutex,
                   view_updates, view_calls, processed, notified>>

\* asyncio.Lock.acquire of the view's mutex does not suspend.
ViewLockFree == ~view_locked /\ view_waiters = << >>

\* Lock.release of the view's mutex.
ReleaseViewMutex ==
    /\ view_locked' = FALSE
    /\ view_woken' = (view_waiters # << >>)

\* asyncio.create_task(self._update()): the next _update task exists.
CreateUpdate ==
    /\ updates_created < MaxUpdates
    /\ updates_created' = updates_created + 1
    /\ u_pc' = [u_pc EXCEPT ![updates_created + 1] = "created"]

\* The timer of a view in poll mode (lines 148-152) fires and _update is
\* called.
timer_fires ==
    /\ ~Push
    /\ CreateUpdate
    /\ UNCHANGED <<clock, view_config, last_retrieved_timestamp, view_mutex,
                   u_range, view_calls, processed, notified>>

\* _new_log_values_written, lines 160-164, of the view for flush i begins: a
\* view in push mode calls _process_new_logvalues with the values of the
\* flush, another view creates an _update task.
new_log_values_written(i) ==
    /\ i \in DOMAIN flushes
    /\ 1 \in DOMAIN flushes[i].subs
    /\ flushes[i].subs[1] = "running"
    /\ i \notin notified
    /\ notified' = notified \cup {i}
    /\ IF Push
       THEN /\ processed' = Append(processed, Batch(flushes[i].batch))
            /\ UNCHANGED view_updates
       ELSE /\ CreateUpdate
            /\ UNCHANGED <<u_range, processed>>
    /\ UNCHANGED <<clock, view_config, last_retrieved_timestamp, view_mutex,
                   view_calls>>

\* Lines 167-168 once the mutex is held.
UpdateHoldsMutex(u) ==
    /\ view_locked' = TRUE
    /\ u_range' = [u_range EXCEPT ![u] = DataRetrievalInterval(TRUE, clock)]
    /\ u_pc' = [u_pc EXCEPT ![u] = "retrieving"]

\* _update, line 167: the task takes the mutex or queues for it.
update_begins(u) ==
    /\ u_pc[u] = "created"
    /\ IF ViewLockFree
       THEN /\ UpdateHoldsMutex(u)
            /\ UNCHANGED <<view_waiters, view_woken>>
       ELSE /\ view_waiters' = Append(view_waiters, u)
            /\ u_pc' = [u_pc EXCEPT ![u] = "mutex_wait"]
            /\ UNCHANGED <<view_locked, view_woken, u_range>>
    /\ UNCHANGED <<clock, view_config, last_retrieved_timestamp,
                   updates_created, view_calls, processed, notified>>

\* The _update task waiting for the mutex is resumed.
update_acquires(u) ==
    /\ u_pc[u] = "mutex_wait"
    /\ view_woken
    /\ view_waiters # << >> /\ Head(view_waiters) = u
    /\ view_waiters' = Tail(view_waiters)
    /\ view_woken' = FALSE
    /\ UpdateHoldsMutex(u)
    /\ UNCHANGED <<clock, view_config, last_retrieved_timestamp,
                   updates_created, view_calls, processed, notified>>

\* Lines 172-176: retrieve_log or retrieve_aggregated_log returns and
\* _process_new_logvalues is called with the data, or it raises and _update
\* leaves the mutex.
update_retrieved(u, result) ==
    /\ u_pc[u] = "retrieving"
    /\ IF result = "ok"
       THEN /\ processed' = Append(processed, Range(u_range[u]))
            /\ u_pc' = [u_pc EXCEPT ![u] = "processing"]
            /\ UNCHANGED <<view_locked, view_woken>>
       ELSE /\ ReleaseViewMutex
            /\ u_pc' = [u_pc EXCEPT ![u] = "raised"]
            /\ UNCHANGED processed
    /\ UNCHANGED <<clock, view_config, last_retrieved_timestamp, view_waiters,
                   updates_created, u_range, view_calls, notified>>

\* Lines 176-177: _process_new_logvalues returns and the end of the range
\* becomes _last_retrieved_timestamp, or it raises; the mutex is released.
update_processed(u, result) ==
    /\ u_pc[u] = "processing"
    /\ ReleaseViewMutex
    /\ IF result = "ok"
       THEN /\ last_retrieved_timestamp' = Timestamp(u_range[u][2])
            /\ processed' = [processed EXCEPT ![Len(processed)].returned = TRUE]
            /\ u_pc' = [u_pc EXCEPT ![u] = "done"]
       ELSE /\ u_pc' = [u_pc EXCEPT ![u] = "raised"]
            /\ UNCHANGED <<last_retrieved_timestamp, processed>>
    /\ UNCHANGED <<clock, view_config, view_waiters, updates_created, u_range,
                   view_calls, notified>>

\* Lines 189-199 once the mutex of the view is held.
ViewHoldsMutex(c) ==
    /\ view_locked' = TRUE
    /\ c_range' = [c_range EXCEPT ![c] = CurrentViewInterval(clock)]
    /\ c_pc' = [c_pc EXCEPT ![c] = "retrieving"]

\* get_current_view of a view in poll mode, line 189: the task takes the
\* mutex of the view or queues for it.
view_begins(c) ==
    /\ c_pc[c] = "idle"
    /\ ~Push
    /\ IF ViewLockFree
       THEN /\ ViewHoldsMutex(c)
            /\ UNCHANGED <<view_waiters, view_woken>>
       ELSE /\ view_waiters' = Append(view_waiters, ViewTask(c))
            /\ c_pc' = [c_pc EXCEPT ![c] = "view_wait"]
            /\ UNCHANGED <<view_locked, view_woken, c_range>>
    /\ UNCHANGED <<clock, view_config, last_retrieved_timestamp, view_updates,
                   c_seen, processed, notified>>

\* The get_current_view call waiting for the mutex of the view is resumed.
view_acquires(c) ==
    /\ c_pc[c] = "view_wait"
    /\ view_woken
    /\ view_waiters # << >> /\ Head(view_waiters) = ViewTask(c)
    /\ view_waiters' = Tail(view_waiters)
    /\ view_woken' = FALSE
    /\ ViewHoldsMutex(c)
    /\ UNCHANGED <<clock, view_config, last_retrieved_timestamp, view_updates,
                   c_seen, processed, notified>>

\* Lines 193-199: the retrieval of get_current_view returns or raises, and
\* the mutex of the view is released.
view_returns(c, result) ==
    /\ c_pc[c] = "retrieving"
    /\ ReleaseViewMutex
    /\ c_pc' = [c_pc EXCEPT ![c] = IF result = "ok" THEN "returned"
                                   ELSE "raised"]
    /\ c_seen' = [c_seen EXCEPT ![c] = Len(processed)]
    /\ UNCHANGED <<clock, view_config, last_retrieved_timestamp, view_waiters,
                   view_updates, c_range, processed, notified>>

\* get_current_view of a view in push mode, lines 184-187, with
\* retrieve_log_sync, line 111: the task takes the mutex of the variable or
\* queues for it.
sync_begins(c) ==
    /\ c_pc[c] = "idle"
    /\ Push
    /\ c_range' = [c_range EXCEPT ![c] = DataRetrievalInterval(FALSE, clock)]
    /\ IF LockFree
       THEN /\ mutex_locked' = TRUE
            /\ c_pc' = [c_pc EXCEPT ![c] = "reading"]
            /\ UNCHANGED <<mutex_waiters, mutex_woken>>
       ELSE /\ mutex_waiters' = Append(mutex_waiters, SyncTask(c))
            /\ c_pc' = [c_pc EXCEPT ![c] = "sync_wait"]
            /\ UNCHANGED <<mutex_locked, mutex_woken>>
    /\ UNCHANGED <<clock, view_config, last_retrieved_timestamp, view_mutex,
                   view_updates, c_seen, processed, notified>>
    /\ UNCHANGED log_beside_mutex

\* The retrieve_log_sync call waiting for the mutex of the variable is
\* resumed and calls retrieve_log, line 112.
sync_acquires(c) ==
    /\ c_pc[c] = "sync_wait"
    /\ mutex_woken
    /\ mutex_waiters # << >> /\ Head(mutex_waiters) = SyncTask(c)
    /\ mutex_waiters' = Tail(mutex_waiters)
    /\ mutex_woken' = FALSE
    /\ mutex_locked' = TRUE
    /\ c_pc' = [c_pc EXCEPT ![c] = "reading"]
    /\ UNCHANGED <<clock, view_config, last_retrieved_timestamp, view_mutex,
                   view_updates, c_range, c_seen, processed, notified>>
    /\ UNCHANGED log_beside_mutex

\* Line 112: retrieve_log returns or raises, and the mutex of the variable
\* is released.
sync_returns(c, result) ==
    /\ c_pc[c] = "reading"
    /\ ReleaseMutex
    /\ c_pc' = [c_pc EXCEPT ![c] = IF result = "ok" THEN "returned"
                                   ELSE "raised"]
    /\ c_seen' = [c_seen EXCEPT ![c] = Len(processed)]
    /\ UNCHANGED <<clock, view_config, last_retrieved_timestamp, view_mutex,
                   view_updates, c_range, processed, notified>>
    /\ UNCHANGED <<mutex_waiters, log_beside_mutex>>

(***************************************************************************)
(* interfaces/mysql.py: MySQLPersistenceVariable.retrieve_log.  A datetime *)
(* is its wall-clock time and its UTC offset, both in seconds; the column  *)
(* `ts` of the table holds the wall-clock time in UTC.                     *)
(***************************************************************************)
\* The UTC offsets of the datetimes passed to retrieve_log.
Offsets == {0, 1}

\* An aware datetime, and the instant it denotes.
Datetime(wall, offset) == [wall |-> wall, offset |-> offset]
Instant(dt) == dt.wall - dt.offset

\* `dt.astimezone(datetime.timezone.utc)`, lines 123-124 and 128-129.
AsUtc(dt) == Datetime(dt.wall - dt.offset, 0)

\* `row[0].replace(tzinfo=datetime.timezone.utc)`, line 131: the entry of a
\* row, the converter of an int being the identity of line 191.
Entry(row) == <<Datetime(row[1], 0), row[2]>>

\* The sequences of the members of a set, each once.
Orderings(S) ==
    {s \in [1 .. Cardinality(S) -> S] :
        \A i, j \in 1 .. Cardinality(S) : i # j => s[i] # s[j]}

\* The query of lines 149-152: the rows with start <= ts < end, ordered by
\* ts.
RetrieveQuery(rows, start_time, end_time) ==
    LET InRange(row) == row[1] >= start_time.wall /\ row[1] < end_time.wall
    IN  SelectSeq(rows, InRange)

\* The first subquery of lines 140-143, `ts < start ORDER BY ts DESC LIMIT
\* 1`: the sets of rows it may select, one row with the greatest ts below
\* start_time, or none.
PreviousRow(rows, start_time) ==
    LET before == {i \in DOMAIN rows : rows[i][1] < start_time.wall}
        latest == {i \in before : \A j \in before : rows[j][1] <= rows[i][1]}
    IN  IF before = {} THEN {{}} ELSE {{rows[i]} : i \in latest}

\* The query of lines 140-147: the UNION of the two subqueries holds every
\* distinct row once, in an order the database chooses.
RetrieveWithPrevQuery(rows, start_time, end_time) ==
    LET ranged == RetrieveQuery(rows, start_time, end_time)
    IN  UNION {Orderings(prev \cup {ranged[i] : i \in DOMAIN ranged}) :
                  prev \in PreviousRow(rows, start_time)}

\* The calls of retrieve_log with times within the bounds.
RetrieveCalls ==
    [start : {Datetime(w, o) : w \in 0 .. MaxTime, o \in Offsets},
     end : {Datetime(w, o) : w \in 0 .. MaxTime, o \in Offsets},
     include_previous : BOOLEAN]

\* No retrieve_log call is made.
IdleRetrieve ==
    /\ pool_ready = FALSE
    /\ db_rows = << >>
    /\ ret_call = [start |-> Datetime(0, 0), end |-> Datetime(0, 0),
                   include_previous |-> FALSE]
    /\ ret_pc = "idle"
    /\ ret_result = << >>

\* A table with any rows of the variable, ordered by ts, and a call of
\* retrieve_log before or after the connector has been started.
InitRetrieve ==
    /\ pool_ready \in BOOLEAN
    /\ db_rows \in Logs
    /\ ret_call \in RetrieveCalls
    /\ ret_pc = "called"
    /\ ret_result = << >>

\* MySQLConnector.start, lines 30-33.
mysql_start ==
    /\ ~pool_ready
    /\ pool_ready' = TRUE
    /\ UNCHANGED <<db_rows, ret_call, ret_pc, ret_result>>

\* retrieve_log, lines 113-132: once the pool is ready the query is executed
\* with the times converted to UTC, and the rows are returned as entries.
retrieve_log_returns ==
    /\ ret_pc = "called"
    /\ pool_ready
    /\ LET start_time == AsUtc(ret_call.start)
           end_time == AsUtc(ret_call.end)
       IN  \E rows \in IF ret_call.include_previous
                       THEN RetrieveWithPrevQuery(db_rows, start_time,
                                                  end_time)
                       ELSE {RetrieveQuery(db_rows, start_time, end_time)} :
               ret_result' = [i \in DOMAIN rows |-> Entry(rows[i])]
    /\ ret_pc' = "returned"
    /\ UNCHANGED <<pool_ready, db_rows, ret_call>>

(***************************************************************************)
(* timer.py: AbstractTimer.run and Every._next_execution.  One Every timer *)
(* with its run() task; datetimes and timedeltas are whole seconds.        *)
(***************************************************************************)
\* Time passes freely up to MaxNow.
MaxNow == 2
\* Largest number of firings of the timer.
MaxFirings == 2

\* The arguments Every is constructed with.
Deltas == {2, 3}
TimerOffsets == {0, 1}
RandomRanges == {0, 1}
RandomFunctions == {"uniform", "gauss", "other"}

\* _random_time, lines 70-81: the zero timedelta without a random range;
\* random_range * random.uniform(-1, 1), or random_range * random.gauss(0,
\* 0.5), which is not bounded by the range: twice the range stands for the
\* values beyond it.
RandomTime(random_range, function) ==
    IF random_range = 0 THEN {0}
    ELSE IF function = "uniform"
    THEN {random_range * v : v \in -1..1}
    ELSE {random_range * v : v \in {-2, 0, 2}}

\* _random_time raises ValueError for another function, lines 79-80.
RandomTimeRaises(random_range, function) ==
    /\ random_range # 0
    /\ function \notin {"uniform", "gauss"}

\* Every._next_execution, lines 95-107, with the value of now() and the
\* value _random_time returned.
NextExecution(align, delta, offset, last, now, random_time) ==
    LET aligned == ((now \div delta) + 1) * delta
        following == IF last.none THEN now ELSE last.t + delta
    IN  (IF align THEN aligned ELSE following) + offset + random_time

\* What the loop would store if it kept the time of the firing.
TimeOfFiring(execution, now) == Timestamp(now)

\* Line 52: what run() stores in last_execution at a firing.
LastExecution(execution, now) == Timestamp(execution)

\* A loop that awaited _publish goes on when the tasks have ended.
LoopAwaitsPublish(tasks) == \A k \in DOMAIN tasks : tasks[k] # "running"

\* Line 53: asyncio.create_task returns at once, whatever the tasks created
\* at earlier firings do.
LoopContinues(tasks) == TRUE

\* AbstractTimer.__init__ and Every.__init__, and the run() task created by
\* _TimerSupervisor.run.
InitTimer ==
    /\ time_now \in 0..1
    /\ every_align \in BOOLEAN
    /\ every_delta \in Deltas
    /\ every_offset \in TimerOffsets
    /\ every_random \in RandomRanges
    /\ random_function \in RandomFunctions
    /\ last_execution = NoTimestamp
    /\ next_execution = 0
    /\ timer_pc = "created"
    /\ scheduled = <<>>
    /\ fired_at = <<>>
    /\ publish_tasks = <<>>

\* A process without a started timer.
IdleTimer ==
    /\ time_now = 0
    /\ every_align = TRUE
    /\ every_delta = 2
    /\ every_offset = 0
    /\ every_random = 0
    /\ random_function = "uniform"
    /\ last_execution = NoTimestamp
    /\ next_execution = 0
    /\ timer_pc = "created"
    /\ scheduled = <<>>
    /\ fired_at = <<>>
    /\ publish_tasks = <<>>

timer_config == <<every_align, every_delta, every_offset, every_random,
                  random_function>>

\* Time passes.  Once MaxNow is reached it passes only until the execution
\* the timer sleeps for.
timer_tick ==
    /\ \/ time_now < MaxNow
       \/ timer_pc = "sleeping" /\ time_now < next_execution
    /\ time_now' = time_now + 1
    /\ UNCHANGED <<timer_config, last_execution, next_execution, timer_pc,
                   scheduled, fired_at, publish_tasks>>

\* run(), lines 46-51: the next execution is computed from last_execution
\* and the task sleeps until then, or the exception of _random_time ends it.
Schedule(last) ==
    IF RandomTimeRaises(every_random, random_function)
    THEN /\ timer_pc' = "raised"
         /\ UNCHANGED <<next_execution, scheduled>>
    ELSE \E random_time \in RandomTime(every_random, random_function) :
             LET execution == NextExecution(every_align, every_delta,
                                            every_offset, last, time_now,
                                            random_time)
             IN  /\ next_execution' = execution
                 /\ scheduled' = Append(scheduled,
                                        [now |-> time_now, last |-> last,
                                         random_time |-> random_time,
                                         execution |-> execution])
                 /\ timer_pc' = "sleeping"

\* The run() task starts: lines 44-51.
timer_run_begins ==
    /\ timer_pc = "created"
    /\ Schedule(last_execution)
    /\ UNCHANGED <<time_now, timer_config, last_execution, fired_at,
                   publish_tasks>>

\* _logarithmic_sleep returns, not before the target: lines 52-53 store the
\* execution and create the task of _publish, and the loop computes the next
\* execution, lines 46-51.
timer_fires_every ==
    /\ timer_pc = "sleeping"
    /\ time_now >= next_execution
    /\ Len(fired_at) < MaxFirings
    /\ LoopContinues(publish_tasks)
    /\ last_execution' = LastExecution(next_execution, time_now)
    /\ fired_at' = Append(fired_at, time_now)
    /\ publish_tasks' = Append(publish_tasks, "running")
    /\ Schedule(last_execution')
    /\ UNCHANGED <<time_now, timer_config>>

\* The task of _publish ends when all subscribers have returned.
timer_publish_returns(k) ==
    /\ k \in DOMAIN publish_tasks
    /\ publish_tasks[k] = "running"
    /\ publish_tasks' = [publish_tasks EXCEPT ![k] = "done"]
    /\ UNCHANGED <<time_now, timer_config, last_execution, next_execution,
                   timer_pc, scheduled, fired_at>>

(***************************************************************************)
(* timer.py: AbstractTimer._logarithmic_sleep.  Time is counted in         *)
(* twentieths of a second; the delay asked of asyncio.sleep is the         *)
(* fraction <<numerator, denominator>>, and a sleep lasts a whole number   *)
(* of units, at least one.                                                 *)
(***************************************************************************)
\* Largest target of a call.
MaxTarget == 9
\* Largest time by which a sleep lasts longer than asked.
MaxLate == 2

\* 0.2 seconds, line 63.
Threshold == 4

\* A loop that sleeps half of the remaining time to the end.
HalfOfRemainder(diff) == <<diff, 2>>

\* Line 65: `asyncio.sleep(diff)`
Remainder(diff) == <<diff, 1>>

\* Line 68: `asyncio.sleep(diff / 2)`
Half(diff) == <<diff, 2>>

\* The smallest whole number not below the fraction.
Ceiling(delay) == (delay[1] + delay[2] - 1) \div delay[2]

\* How long a sleep may last: the event loop resumes the task late, or its
\* clock lets it resume early.
Durations(delay) == 1..(Ceiling(delay) + MaxLate)

\* The sleep lasted less than asked.
Short(sleep) == sleep.lasted * sleep.delay[2] < sleep.delay[1]

InitSleep ==
    /\ sleep_now \in 0..2
    /\ sleep_target \in 0..MaxTarget
    /\ sleep_called = sleep_now
    /\ sleep_pc = "looping"
    /\ sleeps = <<>>

\* A process in which _logarithmic_sleep is not called.
IdleSleep ==
    /\ sleep_now = 0
    /\ sleep_target = 0
    /\ sleep_called = 0
    /\ sleep_pc = "returned"
    /\ sleeps = <<>>

\* asyncio.sleep(delay) with the remaining time diff, and the time it lasts.
Sleep(diff, delay) ==
    \E lasted \in Durations(delay) :
        /\ sleep_now' = sleep_now + lasted
        /\ sleeps' = Append(sleeps, [diff |-> diff, delay |-> delay,
                                     lasted |-> lasted])

\* Lines 61-68, one turn of the loop with the sleep it makes.
logarithmic_sleep_step ==
    /\ sleep_pc = "looping"
    /\ LET diff == sleep_target - sleep_now
       IN  IF diff < Threshold
           THEN /\ IF diff > 0
                   THEN Sleep(diff, Remainder(diff))
                   ELSE UNCHANGED <<sleep_now, sleeps>>
                /\ sleep_pc' = "returned"
           ELSE /\ Sleep(diff, Half(diff))
                /\ sleep_pc' = "looping"
    /\ UNCHANGED <<sleep_target, sleep_called>>

(***************************************************************************)
(* web/__init__.py: the websocket handlers and websocket_subscribe.  One   *)
(* websocket connection, of the UI (with one LoggingWebUIView as its       *)
(* connector) or of the API (with one WebApiObject); every text message is *)
(* a subscribe message.  The log entries of the view are numbered in the   *)
(* order in which the view processes them.                                 *)
(***************************************************************************)
\* Largest number of messages of the connection.
MaxMessages == 2
\* Largest number of log entries.
MaxEntries == 2

Messages == 1 .. MaxMessages

\* The frame of _websocket_before_subscribe, generic.py lines 274-280, and
\* that of _process_new_logvalues, lines 266-271.
Frame(init, data) == [init |-> init, data |-> data]

InitWs ==
    /\ ws_handler = "receiving"
    /\ ws_kind \in {"ui", "api"}
    /\ ws_tasks = [m \in Messages |-> [pc |-> "none", data |-> {}]]
    /\ ui_subscribed = FALSE
    /\ api_subscribed = FALSE
    /\ view_entries \in 0 .. 1
    /\ ws_frames = << >>

\* A process without a websocket connection.
IdleWs ==
    /\ ws_handler = "finished"
    /\ ws_kind = "ui"
    /\ ws_tasks = [m \in Messages |-> [pc |-> "none", data |-> {}]]
    /\ ui_subscribed = FALSE
    /\ api_subscribed = FALSE
    /\ view_entries = 0
    /\ ws_frames = << >>

\* `async for msg in ws`, lines 201-203 and 225-227: a text message arrives
\* and a task is created for its dispatch.
ws_message(m) ==
    /\ ws_handler = "receiving"
    /\ ws_tasks[m].pc = "none"
    /\ \A n \in Messages : n < m => ws_tasks[n].pc # "none"
    /\ ws_tasks' = [ws_tasks EXCEPT ![m].pc = "created"]
    /\ UNCHANGED <<ws_handler, ws_kind, ui_subscribed, api_subscribed,
                   view_entries, ws_frames>>

\* The connection is closed: the loop ends and the finally clause, lines
\* 206-212 and 230-235, removes the websocket from every connector or API
\* object; websocket_close does not suspend.
ws_handler_finishes ==
    /\ ws_handler = "receiving"
    /\ ws_handler' = "finished"
    /\ ui_subscribed' = FALSE
    /\ api_subscribed' = FALSE
    /\ UNCHANGED <<ws_kind, ws_tasks, view_entries, ws_frames>>

\* _ui_websocket_dispatch, lines 214-227, of a subscribe message:
\* WebUIConnector.websocket_subscribe, line 531, awaits
\* _websocket_before_subscribe, which awaits get_current_view, generic.py
\* line 275.
ui_dispatch_begins(m) ==
    /\ ws_kind = "ui"
    /\ ws_tasks[m].pc = "created"
    /\ ws_tasks' = [ws_tasks EXCEPT ![m].pc = "viewing"]
    /\ UNCHANGED <<ws_handler, ws_kind, ui_subscribed, api_subscribed,
                   view_entries, ws_frames>>

\* get_current_view returns the entries the view holds, and
\* _websocket_before_subscribe awaits ws.send_str, generic.py lines 276-280.
ui_view_returns(m) ==
    /\ ws_tasks[m].pc = "viewing"
    /\ ws_tasks' = [ws_tasks EXCEPT ![m] =
                       [pc |-> "sending", data |-> 1 .. view_entries]]
    /\ UNCHANGED <<ws_handler, ws_kind, ui_subscribed, api_subscribed,
                   view_entries, ws_frames>>

\* ws.send_str of the initial frame returns, or raises on a connection that
\* has been closed; if it returns, line 532 adds the websocket to
\* subscribed_websockets.
ui_send_returns(m, raises) ==
    /\ ws_tasks[m].pc = "sending"
    /\ raises => ws_handler = "finished"
    /\ IF raises
       THEN /\ ws_tasks' = [ws_tasks EXCEPT ![m].pc = "raised"]
            /\ UNCHANGED <<ui_subscribed, ws_frames>>
       ELSE /\ ws_tasks' = [ws_tasks EXCEPT ![m].pc = "done"]
            /\ ws_frames' = Append(ws_frames, Frame(TRUE, ws_tasks[m].data))
            /\ ui_subscribed' = TRUE
    /\ UNCHANGED <<ws_handler, ws_kind, api_subscribed, view_entries>>

\* _api_websocket_dispatch, lines 238-322, of a subscribe message:
\* WebApiObject.websocket_subscribe, lines 628-630, adds the websocket and
\* awaits _from_provider.
api_dispatch_begins(m) ==
    /\ ws_kind = "api"
    /\ ws_tasks[m].pc = "created"
    /\ api_subscribed' = TRUE
    /\ ws_tasks' = [ws_tasks EXCEPT ![m].pc = "reading"]
    /\ UNCHANGED <<ws_handler, ws_kind, ui_subscribed, view_entries, ws_frames>>

\* Lines 630-633 and 322: the value of the provider and the response are
\* sent.
api_dispatch_ends(m) ==
    /\ ws_tasks[m].pc = "reading"
    /\ ws_tasks' = [ws_tasks EXCEPT ![m].pc = "done"]
    /\ UNCHANGED <<ws_handler, ws_kind, ui_subscribed, api_subscribed,
                   view_entries, ws_frames>>

\* The view processes a new log entry: _process_new_logvalues, generic.py
\* lines 266-271, with _websocket_publish, lines 541-545, sends it to the
\* subscribed websockets.
process_new_logvalues ==
    /\ view_entries < MaxEntries
    /\ view_entries' = view_entries + 1
    /\ ws_frames' = IF ui_subscribed
                    THEN Append(ws_frames, Frame(FALSE, {view_entries + 1}))
                    ELSE ws_frames
    /\ UNCHANGED <<ws_handler, ws_kind, ws_tasks, ui_subscribed,
                   api_subscribed>>

(***************************************************************************)
(* log/generic.py: a WritableDataLogVariable with a live view in poll      *)
(* mode.  The value of a _write call gets the time of the call as its      *)
(* timestamp; it is in the log once _write_to_data_log has returned for    *)
(* its batch, and a retrieval returns the entries in the log with a        *)
(* timestamp in its range.                                                 *)
(***************************************************************************)
InitPoll ==
    /\ entry_time = [w \in Writers |-> 0]
    /\ u_data = [u \in Updates |-> {}]

\* No entry has been written and none retrieved.
IdlePoll == InitPoll

\* The entries _write_to_data_log has stored.
InLog ==
    {w \in Writers : \E i \in DOMAIN flushes :
        /\ flushes[i].log = "ok"
        /\ \E k \in DOMAIN flushes[i].batch : flushes[i].batch[k] = w}

\* Largest number of _write calls on a variable with a polling live view.
PollWrites == 3

\* retrieve_log(begin, end, include_previous=False) of the data log.
RetrieveLog(range) ==
    {w \in InLog : range[1] <= entry_time[w] /\ entry_time[w] < range[2]}

\* _write, line 79: the value is appended with the current time.
timed_write(w) ==
    /\ view_writable
    /\ calls < PollWrites
    /\ Write(w)
    /\ entry_time' = [entry_time EXCEPT ![w] = clock]
    /\ UNCHANGED u_data

\* _update, lines 172-176, with the entries retrieve_log returns.
update_retrieved_log(u, result) ==
    /\ update_retrieved(u, result)
    /\ u_data' = [u_data EXCEPT ![u] = IF result = "ok"
                                       THEN RetrieveLog(u_range[u])
                                       ELSE {}]
    /\ UNCHANGED entry_time

(***************************************************************************)
(* Specifications                                                          *)
(***************************************************************************)
\* The data-log variable alone, beside an interface with the default
\* arguments that is never started.
InitLogOnly ==
    /\ InitLog
    /\ InitSup
    /\ InitProc
    /\ InitWeb
    /\ IdleAggregate
    /\ IdleView
    /\ IdleRetrieve
    /\ IdleTimer
    /\ IdleSleep
    /\ IdleWs
    /\ IdlePoll
    /\ auto_reconnect
    /\ ~failsafe_arg

NextLog ==
    \/ subscribe_data_log /\ UNCHANGED beside_log
    \/ \E w \in Writers : Write(w) /\ UNCHANGED beside_log
    \/ \E w \in Writers : MutexAcquired(w) /\ UNCHANGED beside_log
    \/ \E i \in 1 .. NumWriters, r \in Results :
           WriteToDataLogEnds(i, r) /\ UNCHANGED beside_log
    \/ \E i \in 1 .. NumWriters, s \in 1 .. MaxSubscribers, r \in Results :
           NewLogValuesWrittenEnds(i, s, r) /\ UNCHANGED beside_log
    \/ \E w \in Writers : GatherResumes(w) /\ UNCHANGED beside_log
    \/ \E w \in Writers : EventWaitReturns(w) /\ UNCHANGED beside_log

SpecLog == InitLogOnly /\ [][NextLog]_vars

\* The event loop resumes every task that can go on, and every call of
\* _write_to_data_log and of _new_log_values_written returns or raises.
FairLog ==
    /\ SpecLog
    /\ \A w \in Writers : WF_vars(MutexAcquired(w) /\ UNCHANGED beside_log)
    /\ \A w \in Writers : WF_vars(GatherResumes(w) /\ UNCHANGED beside_log)
    /\ \A w \in Writers : WF_vars(EventWaitReturns(w) /\ UNCHANGED beside_log)
    /\ \A i \in 1 .. NumWriters :
           WF_vars((\E r \in Results : WriteToDataLogEnds(i, r))
                   /\ UNCHANGED beside_log)
    /\ \A i \in 1 .. NumWriters, s \in 1 .. MaxSubscribers :
           WF_vars((\E r \in Results : NewLogValuesWrittenEnds(i, s, r))
                   /\ UNCHANGED beside_log)

\* The data-log variable with writers whose tasks may be cancelled.
NextCancel ==
    \/ NextLog
    \/ \E w \in Writers : WriteCancelled(w) /\ UNCHANGED beside_log

SpecCancel == InitLogOnly /\ [][NextCancel]_vars

\* The steps of the supervise task.
SuperviseStep ==
    \/ supervise_begins
    \/ supervise_after_connect
    \/ supervise_after_running_wait
    \/ supervise_after_subscribe_wait
    \/ supervise_disconnect_returns
    \/ supervise_run_awaited
    \/ supervise_run_ended
    \/ supervise_abort_returns
    \/ supervise_after_sleep

\* The steps of the stop() tasks.
StopStep ==
    \/ \E c \in StopTasks : stop(c)
    \/ \E c \in StopTasks : stop_disconnect_returns(c)
    \/ \E c \in StopTasks : stop_returns(c)

\* _run ends after _disconnect has been called.
RunStops == \E r \in RunResults : run_stops(r)

\* The supervised interface alone, beside a data-log variable never written.
InitSupOnly ==
    /\ InitSup
    /\ InitLog
    /\ InitProc
    /\ InitWeb
    /\ IdleAggregate
    /\ IdleView
    /\ IdleRetrieve
    /\ IdleTimer
    /\ IdleSleep
    /\ IdleWs
    /\ IdlePoll

NextSup ==
    \/ start /\ UNCHANGED beside_sup
    \/ start_resumes /\ UNCHANGED beside_sup
    \/ supervise_begins /\ UNCHANGED beside_sup
    \/ supervise_after_connect /\ UNCHANGED beside_sup
    \/ supervise_after_running_wait /\ UNCHANGED beside_sup
    \/ supervise_after_subscribe_wait /\ UNCHANGED beside_sup
    \/ supervise_disconnect_returns /\ UNCHANGED beside_sup
    \/ supervise_run_awaited /\ UNCHANGED beside_sup
    \/ supervise_run_ended /\ UNCHANGED beside_sup
    \/ supervise_abort_returns /\ UNCHANGED beside_sup
    \/ supervise_after_sleep /\ UNCHANGED beside_sup
    \/ wait_stopping_done /\ UNCHANGED beside_sup
    \/ wait_running_done /\ UNCHANGED beside_sup
    \/ timeout_expires /\ UNCHANGED beside_sup
    \/ connect_returns /\ UNCHANGED beside_sup
    \/ connect_raises /\ UNCHANGED beside_sup
    \/ run_sets_running /\ UNCHANGED beside_sup
    \/ \E r \in RunResults : run_stops(r) /\ UNCHANGED beside_sup
    \/ \E r \in RunResults : run_fails(r) /\ UNCHANGED beside_sup
    \/ subscribe_returns /\ UNCHANGED beside_sup
    \/ subscribe_raises /\ UNCHANGED beside_sup
    \/ handle_signal /\ UNCHANGED beside_sup
    \/ interface_failure /\ UNCHANGED beside_sup
    \/ \E c \in StopTasks : stop(c) /\ UNCHANGED beside_sup
    \/ \E c \in StopTasks : stop_disconnect_returns(c) /\ UNCHANGED beside_sup
    \/ \E c \in StopTasks : stop_returns(c) /\ UNCHANGED beside_sup

SpecSup == InitSupOnly /\ [][NextSup]_vars

\* The scheduling of the event loop and the hooks' contract: a task that can
\* run is run, a timeout expires, every hook call terminates, and _run ends
\* once _disconnect has been called.
FairScheduling ==
    /\ WF_vars(start_resumes /\ UNCHANGED beside_sup)
    /\ WF_vars(SuperviseStep /\ UNCHANGED beside_sup)
    /\ WF_vars(StopStep /\ UNCHANGED beside_sup)
    /\ WF_vars(wait_stopping_done /\ UNCHANGED beside_sup)
    /\ WF_vars(wait_running_done /\ UNCHANGED beside_sup)
    /\ WF_vars(timeout_expires /\ UNCHANGED beside_sup)
    /\ WF_vars(interface_failure /\ UNCHANGED beside_sup)
    /\ WF_vars(connect_returns /\ UNCHANGED beside_sup)
    /\ WF_vars(subscribe_returns /\ UNCHANGED beside_sup)
    /\ WF_vars(RunStops /\ UNCHANGED beside_sup)

FairSup == SpecSup /\ FairScheduling

\* In addition the collaborator becomes available: after at most MaxFaults
\* failures _connect and _subscribe succeed and _run sets _running and keeps
\* running until _disconnect is called.
FairSupAvailable ==
    /\ SpecSup
    /\ FairScheduling
    /\ WF_vars(run_sets_running /\ UNCHANGED beside_sup)

\* Largest number of failures of the collaborator during one run of main().
MainFaults == 1

\* The collaborator may fail once more during this run of main().
FaultsLeft == Len(fault_log) < MainFaults

\* What a step of main(), run() or the stop() tasks leaves alone.
beside_proc == <<logvars, supvars, webvars, aggvars, viewvars, retvars, timervars, sleepvars, wsvars, pollvars>>

\* The whole process: main() runs the event loop, run() starts the two
\* registered interfaces, signals and interface failures create stop() tasks.
\* Nothing runs before main() has started the loop or after it has left it.
InitMain ==
    /\ InitSup
    /\ InitLog
    /\ InitProc
    /\ InitWeb
    /\ IdleAggregate
    /\ IdleView
    /\ IdleRetrieve
    /\ IdleTimer
    /\ IdleSleep
    /\ IdleWs
    /\ IdlePoll

NextMain ==
    \/ LoopRunning /\ start /\ UNCHANGED beside_sup
    \/ LoopRunning /\ start_resumes /\ UNCHANGED beside_sup
    \/ LoopRunning /\ supervise_begins /\ UNCHANGED beside_sup
    \/ LoopRunning /\ supervise_after_connect /\ UNCHANGED beside_sup
    \/ LoopRunning /\ supervise_after_running_wait /\ UNCHANGED beside_sup
    \/ LoopRunning /\ supervise_after_subscribe_wait /\ UNCHANGED beside_sup
    \/ LoopRunning /\ supervise_disconnect_returns /\ UNCHANGED beside_sup
    \/ LoopRunning /\ supervise_run_awaited /\ UNCHANGED beside_sup
    \/ LoopRunning /\ supervise_run_ended /\ UNCHANGED beside_sup
    \/ LoopRunning /\ supervise_abort_returns /\ UNCHANGED beside_sup
    \/ LoopRunning /\ supervise_after_sleep /\ UNCHANGED beside_sup
    \/ LoopRunning /\ wait_stopping_done /\ UNCHANGED beside_sup
    \/ LoopRunning /\ wait_running_done /\ UNCHANGED beside_sup
    \/ LoopRunning /\ timeout_expires /\ UNCHANGED beside_sup
    \/ LoopRunning /\ connect_returns /\ UNCHANGED beside_sup
    \/ LoopRunning /\ FaultsLeft /\ connect_raises /\ UNCHANGED beside_sup
    \/ LoopRunning /\ run_sets_running /\ UNCHANGED beside_sup
    \/ \E r \in RunResults : LoopRunning /\ run_stops(r) /\ UNCHANGED beside_sup
    \/ \E r \in RunResults :
           LoopRunning /\ FaultsLeft /\ run_fails(r) /\ UNCHANGED beside_sup
    \/ LoopRunning /\ subscribe_returns /\ UNCHANGED beside_sup
    \/ LoopRunning /\ FaultsLeft /\ subscribe_raises /\ UNCHANGED beside_sup
    \/ LoopRunning /\ handle_signal /\ UNCHANGED beside_sup
    \/ LoopRunning /\ interface_failure /\ UNCHANGED beside_sup
    \/ \E c \in StopTasks : LoopRunning /\ stop(c) /\ UNCHANGED beside_sup
    \/ \E c \in StopTasks :
           LoopRunning /\ stop_disconnect_returns(c) /\ UNCHANGED beside_sup
    \/ \E c \in StopTasks :
           LoopRunning /\ stop_returns(c) /\ UNCHANGED beside_sup
    \/ main_begins /\ UNCHANGED beside_proc
    \/ \E r \in RunResults :
           LoopRunning /\ other_start_ends(r) /\ UNCHANGED beside_proc
    \/ LoopRunning /\ run_after_starts /\ UNCHANGED beside_proc
    \/ \E r \in RunResults :
           LoopRunning /\ run_after_variables(r) /\ UNCHANGED beside_proc
    \/ \E r \in RunResults :
           LoopRunning /\ run_after_timers(r) /\ UNCHANGED beside_proc
    \/ LoopRunning /\ run_returns /\ UNCHANGED beside_proc
    \/ main_returns /\ UNCHANGED beside_proc
    \/ main_raises /\ UNCHANGED beside_proc
    \/ \E c \in StopTasks :
           LoopRunning /\ other_stop_begins(c) /\ UNCHANGED beside_proc
    \/ \E c \in StopTasks, r \in RunResults :
           LoopRunning /\ other_stop_ends(c, r) /\ UNCHANGED beside_proc
    \/ \E c \in StopTasks :
           LoopRunning /\ timer_stop_ends(c) /\ UNCHANGED beside_proc
    \/ \E c \in StopTasks :
           LoopRunning /\ stop_sets_event(c) /\ UNCHANGED beside_proc

SpecMain == InitMain /\ [][NextMain]_vars

\* What a step of the API object, its clients and its provider leaves alone.
beside_web == <<logvars, supvars, procvars, aggvars, viewvars, retvars, timervars, sleepvars, wsvars, pollvars>>

\* The API object alone: clients send GET requests without an If-None-Match
\* header, with the ETag of their previous response or with the current etag;
\* the provider publishes values; POST requests arrive.
InitApi ==
    /\ InitLog
    /\ InitSup
    /\ auto_reconnect
    /\ ~failsafe_arg
    /\ InitProc
    /\ InitWeb
    /\ IdleAggregate
    /\ IdleView
    /\ IdleRetrieve
    /\ IdleTimer
    /\ IdleSleep
    /\ IdleWs
    /\ IdlePoll

NextApi ==
    \/ \E c \in Clients, wait \in BOOLEAN :
           \E e \in {PyNone, LastEtag(c), str(id(future))} :
               http_get(c, wait, e) /\ UNCHANGED beside_web
    \/ \E c \in Clients : get_timeout_expires(c) /\ UNCHANGED beside_web
    \/ \E c \in Clients : http_get_resumes(c) /\ UNCHANGED beside_web
    \/ api_write /\ UNCHANGED beside_web
    \/ \E body \in Bodies, name \in Names :
           http_post(body, name) /\ UNCHANGED beside_web

SpecApi == InitApi /\ [][NextApi]_vars

\* What the call of aggregate() leaves alone.
beside_agg == <<logvars, supvars, procvars, webvars, viewvars, retvars, timervars, sleepvars, wsvars, pollvars>>

\* One call of aggregate() with any log and any arguments within the bounds,
\* or with one of the worked examples.
InitCall ==
    /\ InitLog
    /\ InitSup
    /\ auto_reconnect
    /\ ~failsafe_arg
    /\ InitProc
    /\ InitWeb
    /\ InitAggregate
    /\ IdleView
    /\ IdleRetrieve
    /\ IdleTimer
    /\ IdleSleep
    /\ IdleWs
    /\ IdlePoll

NextCall ==
    \/ aggregate_returns /\ UNCHANGED beside_agg
    \/ aggregate_raises /\ UNCHANGED beside_agg

SpecAggregate == InitCall /\ [][NextCall]_vars

\* What a step of the live view taken on its own leaves alone, and what a
\* step of a retrieve_log_sync call leaves alone.
beside_view == <<logvars, supvars, procvars, webvars, aggvars, retvars, timervars, sleepvars, wsvars, pollvars>>
beside_log_view == <<supvars, procvars, webvars, aggvars, retvars, timervars, sleepvars, wsvars, pollvars>>

\* A data-log variable and a live view of it with any arguments; the view of
\* a writable variable has subscribed to it.
InitViewOf ==
    /\ InitView
    /\ InitLogSubscribed(IF view_writable THEN 1 ELSE 0)
    /\ InitSup
    /\ auto_reconnect
    /\ ~failsafe_arg
    /\ InitProc
    /\ InitWeb
    /\ IdleAggregate
    /\ IdleRetrieve
    /\ IdleTimer
    /\ IdleSleep
    /\ IdleWs
    /\ IdlePoll

\* A live view in poll mode: the _update calls of its timer and the
\* get_current_view calls of its clients, while time passes.
InitLive == InitViewOf /\ ~Push

NextLive ==
    \/ tick /\ UNCHANGED beside_view
    \/ timer_fires /\ UNCHANGED beside_view
    \/ \E u \in Updates : update_begins(u) /\ UNCHANGED beside_view
    \/ \E u \in Updates : update_acquires(u) /\ UNCHANGED beside_view
    \/ \E u \in Updates, r \in Results :
           update_retrieved(u, r) /\ UNCHANGED beside_view
    \/ \E u \in Updates, r \in Results :
           update_processed(u, r) /\ UNCHANGED beside_view
    \/ \E c \in Viewers : view_begins(c) /\ UNCHANGED beside_view
    \/ \E c \in Viewers : view_acquires(c) /\ UNCHANGED beside_view
    \/ \E c \in Viewers, r \in Results :
           view_returns(c, r) /\ UNCHANGED beside_view

SpecLive == InitLive /\ [][NextLive]_vars

\* A writable data-log variable with its writers, the live view subscribed
\* to it and notified of every flush, and the retrieve_log_sync calls of
\* get_current_view in push mode.
NextPush ==
    \/ \E i \in 1 .. NumWriters :
           new_log_values_written(i) /\ UNCHANGED beside_view
    \/ \E c \in Viewers : sync_begins(c) /\ UNCHANGED beside_log_view
    \/ \E c \in Viewers : sync_acquires(c) /\ UNCHANGED beside_log_view
    \/ \E c \in Viewers, r \in Results :
           sync_returns(c, r) /\ UNCHANGED beside_log_view
    \/ \E w \in Writers :
           /\ view_writable
           /\ calls < ViewWrites
           /\ Write(w)
           /\ UNCHANGED beside_log
    \/ \E w \in Writers : MutexAcquired(w) /\ UNCHANGED beside_log
    \/ \E i \in 1 .. NumWriters, r \in Results :
           WriteToDataLogEnds(i, r) /\ UNCHANGED beside_log
    \/ \E i \in 1 .. NumWriters, r \in Results :
           /\ i \in notified
           /\ Push \/ r = "ok"
           /\ NewLogValuesWrittenEnds(i, 1, r)
           /\ UNCHANGED beside_log
    \/ \E w \in Writers : GatherResumes(w) /\ UNCHANGED beside_log
    \/ \E w \in Writers : EventWaitReturns(w) /\ UNCHANGED beside_log

SpecPush == InitViewOf /\ [][NextPush]_vars

\* What a step of retrieve_log leaves alone.
beside_ret == <<logvars, supvars, procvars, webvars, aggvars, viewvars, timervars, sleepvars, wsvars, pollvars>>

\* One call of retrieve_log on a table with any rows within the bounds.
InitQuery ==
    /\ InitLog
    /\ InitSup
    /\ auto_reconnect
    /\ ~failsafe_arg
    /\ InitProc
    /\ InitWeb
    /\ IdleAggregate
    /\ IdleView
    /\ InitRetrieve
    /\ IdleTimer
    /\ IdleSleep
    /\ IdleWs
    /\ IdlePoll

NextQuery ==
    \/ mysql_start /\ UNCHANGED beside_ret
    \/ retrieve_log_returns /\ UNCHANGED beside_ret

SpecRetrieve == InitQuery /\ [][NextQuery]_vars

\* The timer alone.
beside_timer == <<logvars, supvars, procvars, webvars, aggvars, viewvars, retvars, sleepvars, wsvars, pollvars>>

InitEvery ==
    /\ InitLog
    /\ InitSup
    /\ auto_reconnect
    /\ ~failsafe_arg
    /\ InitProc
    /\ InitWeb
    /\ IdleAggregate
    /\ IdleView
    /\ IdleRetrieve
    /\ InitTimer
    /\ IdleSleep
    /\ IdleWs
    /\ IdlePoll
    /\ IdleWs
    /\ IdlePoll

NextTimer ==
    \/ timer_tick /\ UNCHANGED beside_timer
    \/ timer_run_begins /\ UNCHANGED beside_timer
    \/ timer_fires_every /\ UNCHANGED beside_timer
    \/ \E k \in 1..MaxFirings : timer_publish_returns(k) /\ UNCHANGED beside_timer

SpecTimer == InitEvery /\ [][NextTimer]_vars

\* The event loop runs the run() task and time passes; nothing makes a
\* subscriber of the timer return.
FairTimer ==
    /\ SpecTimer
    /\ WF_vars(timer_tick /\ UNCHANGED beside_timer)
    /\ WF_vars(timer_run_begins /\ UNCHANGED beside_timer)
    /\ WF_vars(timer_fires_every /\ UNCHANGED beside_timer)


\* One call of _logarithmic_sleep.
beside_sleep == <<logvars, supvars, procvars, webvars, aggvars, viewvars, retvars, timervars, wsvars, pollvars>>

InitSleepCall ==
    /\ InitLog
    /\ InitSup
    /\ auto_reconnect
    /\ ~failsafe_arg
    /\ InitProc
    /\ InitWeb
    /\ IdleAggregate
    /\ IdleView
    /\ IdleRetrieve
    /\ IdleTimer
    /\ InitSleep
    /\ IdleWs
    /\ IdlePoll

NextSleep == logarithmic_sleep_step /\ UNCHANGED beside_sleep

SpecSleep == InitSleepCall /\ [][NextSleep]_vars

\* The event loop resumes the task when its sleep is over.
FairSleep == SpecSleep /\ WF_vars(NextSleep)


\* One websocket connection.
beside_ws == <<logvars, supvars, procvars, webvars, aggvars, viewvars, retvars, timervars, sleepvars, pollvars>>

InitConnection ==
    /\ InitLog
    /\ InitSup
    /\ auto_reconnect
    /\ ~failsafe_arg
    /\ InitProc
    /\ InitWeb
    /\ IdleAggregate
    /\ IdleView
    /\ IdleRetrieve
    /\ IdleTimer
    /\ IdleSleep
    /\ InitWs
    /\ IdlePoll

NextWs ==
    \/ \E m \in Messages : ws_message(m) /\ UNCHANGED beside_ws
    \/ ws_handler_finishes /\ UNCHANGED beside_ws
    \/ \E m \in Messages : ui_dispatch_begins(m) /\ UNCHANGED beside_ws
    \/ \E m \in Messages : ui_view_returns(m) /\ UNCHANGED beside_ws
    \/ \E m \in Messages, raises \in BOOLEAN :
           ui_send_returns(m, raises) /\ UNCHANGED beside_ws
    \/ \E m \in Messages : api_dispatch_begins(m) /\ UNCHANGED beside_ws
    \/ \E m \in Messages : api_dispatch_ends(m) /\ UNCHANGED beside_ws
    \/ process_new_logvalues /\ UNCHANGED beside_ws

SpecWs == InitConnection /\ [][NextWs]_vars


\* A writable data log with its writers and a live view in poll mode without
\* aggregation: external_updates is set.
beside_timed_write == <<supvars, procvars, webvars, aggvars, viewvars, retvars, timervars, sleepvars, wsvars>>
beside_retrieved_log == <<logvars, supvars, procvars, webvars, aggvars, retvars, timervars, sleepvars, wsvars>>

InitPolled ==
    /\ InitViewOf
    /\ view_writable
    /\ view_external
    /\ ~view_aggregation

NextPoll ==
    \/ tick /\ UNCHANGED beside_view
    \/ timer_fires /\ UNCHANGED beside_view
    \/ \E i \in 1 .. NumWriters :
           new_log_values_written(i) /\ UNCHANGED beside_view
    \/ \E u \in Updates : update_begins(u) /\ UNCHANGED beside_view
    \/ \E u \in Updates : update_acquires(u) /\ UNCHANGED beside_view
    \/ \E u \in Updates, r \in Results :
           update_retrieved_log(u, r) /\ UNCHANGED beside_retrieved_log
    \/ \E u \in Updates, r \in Results :
           update_processed(u, r) /\ UNCHANGED beside_view
    \/ \E w \in Writers : timed_write(w) /\ UNCHANGED beside_timed_write
    \/ \E w \in Writers : MutexAcquired(w) /\ UNCHANGED beside_log
    \/ \E i \in 1 .. NumWriters, r \in Results :
           WriteToDataLogEnds(i, r) /\ UNCHANGED beside_log
    \/ \E i \in 1 .. NumWriters :
           /\ i \in notified
           /\ NewLogValuesWrittenEnds(i, 1, "ok")
           /\ UNCHANGED beside_log
    \/ \E w \in Writers : GatherResumes(w) /\ UNCHANGED beside_log
    \/ \E w \in Writers : EventWaitReturns(w) /\ UNCHANGED beside_log

SpecPoll == InitPolled /\ [][NextPoll]_vars


(***************************************************************************)
(* Properties of the data-log variable.                                    *)
(***************************************************************************)
\* The invocations of _write_to_data_log that have not returned or raised yet.
RunningLogWrites == {i \in DOMAIN flushes : flushes[i].log = "running"}

\* The entries of a batch, as a set.
BatchSet(i) == {flushes[i].batch[k] : k \in DOMAIN flushes[i].batch}

\* No task is waiting for the mutex or holding it.
NoFlusherActive == \A w \in Writers : w_pc[w] \notin {"mutex_wait", "flushing"}

\* C1: for one data-log variable no two invocations of _write_to_data_log
\* overlap, whatever the interleaving of the concurrent _write calls.
C1_NoOverlappingLogWrites == Cardinality(RunningLogWrites) <= 1

\* The scenario of C2: the first call found the variable idle, and every
\* other call (N >= 1 of them) began while the first flush was in progress.
CoalescingScenario ==
    /\ calls >= 2
    /\ during[1] = 0
    /\ \A w \in 2 .. calls : during[w] = 1

\* C2: if N >= 1 _write calls arrive while one flush is in progress, exactly
\* two flushes occur in total (never a third one, and the second one once no
\* task is left to flush), and the batch of the follow-up flush holds all N
\* values in arrival order.
C2_FlushCoalescing ==
    CoalescingScenario =>
        /\ Len(flushes) <= 2
        /\ Len(flushes) = 2 =>
               flushes[2].batch = [k \in 1 .. calls - 1 |-> k + 1]
        /\ NoFlusherActive => Len(flushes) = 2

C2_Witness ==
    /\ CoalescingScenario
    /\ calls = 3
    /\ NoFlusherActive
    /\ Len(flushes) = 2
    /\ flushes[2].batch = <<2, 3>>

\* C3: a _write call has returned normally only if a _write_to_data_log call
\* whose batch holds the value of that call has completed successfully, for
\* the task that flushed and for the tasks that waited for the event alike.
C3_ReturnedImpliesPersisted ==
    \A w \in Writers :
        w_pc[w] = "returned" =>
            \E i \in DOMAIN flushes : flushes[i].log = "ok" /\ w \in BatchSet(i)

C3_Witness ==
    \E w, v \in Writers :
        /\ w # v
        /\ w_pc[w] = "returned" /\ w_flush[w] # 0
        /\ w_pc[v] = "returned" /\ w_flush[v] = 0
        /\ v \in BatchSet(w_flush[w])

\* C4: when _write_to_data_log raises during a flush, that exception is
\* raised from the _write call of the task that performed the flush (it is
\* the outcome of the awaited write until the task is resumed), and the
\* variable stays usable: the failed flush does not keep the mutex, and a
\* flush marked as pending has a task that is going to perform it.
C4_FlushErrorPropagates ==
    \A i \in DOMAIN flushes :
        flushes[i].log = "failed" =>
            LET w == flushes[i].by IN
            /\ \/ w_pc[w] = "raised" /\ w_exc[w] = "log_error"
               \/ w_pc[w] = "flushing" /\ flushes[i].outer = "log_error"
            /\ w_pc[w] = "raised" =>
                   /\ mutex_locked => \E v \in Writers \ {w} : w_pc[v] = "flushing"
                   /\ flushing_finished # None =>
                          w_pc[flushing_finished] = "mutex_wait"


\* The _write call of task w has been made and has neither returned nor
\* raised.
InWrite(w) == w_pc[w] \in {"mutex_wait", "flushing", "event_wait"}

\* C32: every _write call eventually returns or raises when every call of
\* _write_to_data_log and of _new_log_values_written does, the calls that
\* wait for the event of a flush that fails included.
C32_WriteTerminates ==
    \A w \in Writers : InWrite(w) ~> (w_pc[w] \in {"returned", "raised"})

\* C34: whenever _flushing_finished is not None, the task that created the
\* event is alive and waits for the mutex to perform the next flush and set
\* the event, also after a task waiting for the mutex has been cancelled: no
\* event is orphaned for later _write calls to wait on.
C34_FlusherAlive ==
    flushing_finished # None => w_pc[flushing_finished] = "mutex_wait"

(***************************************************************************)
(* Properties of the supervised interface.                                 *)
(***************************************************************************)
\* The running state: _connect succeeded, _running is set, _subscribe
\* succeeded and the supervise task waits for the run task.
RunningState ==
    /\ sup_pc = "run_wait"
    /\ connect_task = "ok"
    /\ running
    /\ subscribe_task = "ok"

\* C5 as stated: with auto_reconnect, after a failure of _connect the
\* interface eventually reaches the running state unless stop() is called.
C5_Original ==
    (auto_reconnect /\ connect_task = "failed") ~> (RunningState \/ stopping)

\* C5: with auto_reconnect, after a failure of _connect of an interface whose
\* startup has been reported or which has failsafe_start, the interface
\* eventually reaches the running state unless stop() is called.
C5_SupervisorLiveness ==
    (auto_reconnect /\ connect_task = "failed"
        /\ (failsafe_start \/ started = "ok"))
    ~> (RunningState \/ stopping)

C5_Witness ==
    /\ RunningState
    /\ ~stopping
    /\ connect_count = 2
    /\ fault_log = <<"connect">>

\* The collaborator has rejected the first _connect (the first two) and
\* nothing else has failed.
FirstRejected == fault_log = <<"connect">> /\ connect_count = 1 /\ ~stopping
RejectedTwice == fault_log = <<"connect", "connect">> /\ ~stopping

\* The waits of the reconnect scenario: backoff_base, then backoff_base times
\* backoff_exponent.
ScenarioWaits ==
    <<(<<backoff_base, 1>>),
      (<<backoff_base * backoff_exponent_num, backoff_exponent_den>>)>>

\* What the reconnect scenario says of a state after the two rejections:
\* never more than three attempts, the waits before the second and the third
\* attempt are ScenarioWaits, and _subscribe is called only in the attempt
\* whose connect succeeded.
ScenarioCounts ==
    /\ connect_count \in {2, 3}
    /\ waits \in {SubSeq(ScenarioWaits, 1, 1), ScenarioWaits}
    /\ connect_count = 3 => waits = ScenarioWaits
    /\ subscribe_count <= 1
    /\ subscribe_count = 1 => connect_count = 3 /\ connect_task = "ok"

\* The running state reached in the third attempt, or the scenario left.
ScenarioEnd ==
    \/ RunningState /\ connect_count = 3 /\ subscribe_count = 1
    \/ stopping
    \/ Len(fault_log) > 2

\* C6 as stated, for every interface with auto_reconnect: after the first
\* rejection a second attempt is made, and after the second one the third
\* attempt is made with the waits of the scenario and reaches the running
\* state.
C6_Original ==
    /\ []((auto_reconnect /\ RejectedTwice) => ScenarioCounts)
    /\ (auto_reconnect /\ FirstRejected) ~> (connect_count >= 2 \/ stopping)
    /\ (auto_reconnect /\ RejectedTwice) ~> ScenarioEnd

\* C6: the reconnect scenario for the interfaces with failsafe_start (and so
\* auto_reconnect): three attempts, waits backoff_base and backoff_base *
\* backoff_exponent, running state reached, _subscribe called in the attempt
\* whose connect succeeded.
C6_ReconnectScenario ==
    /\ []((failsafe_start /\ RejectedTwice) => ScenarioCounts)
    /\ (failsafe_start /\ FirstRejected) ~> (connect_count >= 2 \/ stopping)
    /\ (failsafe_start /\ RejectedTwice) ~> ScenarioEnd

C6_Witness ==
    /\ RejectedTwice
    /\ RunningState
    /\ connect_count = 3
    /\ subscribe_count = 1
    /\ waits = ScenarioWaits

\* C7: with failsafe_start and auto_reconnect start() never raises; a first
\* attempt that fails (in _connect, waiting for _running or in _subscribe)
\* reports the startup as done and the supervise task goes on (it ends only
\* when stopping); with auto_reconnect false the argument failsafe_start has
\* no effect: the failed startup is reported as an exception and the task
\* ends.
C7_FailsafeStart ==
    /\ failsafe_start => started \notin Exceptions /\ start_pc # "raised"
    /\ (failsafe_start /\ startup_failed) =>
            /\ started = "ok"
            /\ sup_pc \in {"abort_disconnect", "done"} => stopping
    /\ (~auto_reconnect /\ startup_failed) =>
            /\ started \in Exceptions
            /\ sup_pc \in {"abort_disconnect", "done"}
            /\ connect_count = 1

C7_Witness ==
    /\ failsafe_start
    /\ startup_failed
    /\ fault_log = <<"subscribe">>
    /\ start_pc = "returned"
    /\ connect_count = 2
    /\ ~stopping

\* C8: without failsafe_start, a first attempt that fails aborts the start:
\* start() raises the exception of the failing _connect or _subscribe hook,
\* _disconnect is called and the supervise task ends without another call of
\* _connect, also with auto_reconnect.
C8_StartupAbort ==
    (~failsafe_start /\ startup_failed) =>
        /\ connect_task = "failed" => started = "ConnectError"
        /\ raise_after = "SubscribeError" => started = "SubscribeError"
        /\ start_pc \in {"awaiting", "raised"}
        /\ disconnect_count >= 1
        /\ sup_pc \in {"abort_disconnect", "done"}
        /\ connect_count = 1

\* A step of the supervise task that ends an attempt.
AttemptEnds ==
    /\ sup_pc \in {"connect_wait", "running_wait", "subscribe_wait",
                   "disconnect", "await_run", "run_wait"}
    /\ sup_pc' \in {"abort_disconnect", "done", "sleep"}

\* C9: with auto_reconnect false, when the run task has ended after startup
\* was reported and stop() has not been called, the supervise task invokes
\* interface_failure and ends; it does so at most once and never calls
\* _connect again; interface_failure sets the exit code to 1 and schedules
\* stop().
C9_FatalPath ==
    /\ [][(AttemptEnds /\ ~auto_reconnect /\ started' = "ok" /\ ~stopping) =>
            /\ failure_count' = failure_count + 1
            /\ failure_task' = "scheduled"
            /\ connect_count' = connect_count
            /\ sup_pc' = "done"]_vars
    /\ [](failure_count <= 1)
    /\ [](~auto_reconnect => connect_count <= 1)
    /\ [](failure_task = "done" =>
            exit_code = 1 /\ stop_pc["failure"] # "idle")
    /\ [](exit_code = 1 => failure_count = 1)

C9_Witness ==
    /\ ~auto_reconnect
    /\ started = "ok"
    /\ failure_count = 1
    /\ failure_task = "done"
    /\ exit_code = 1
    /\ stop_pc["failure"] = "done"
    /\ stop_pc["signal"] = "idle"

\* The states of the supervise task C10 names: connecting, waiting for
\* _running, subscribing, running, backoff sleep.
NamedStates == {"connect_wait", "running_wait", "subscribe_wait", "run_wait",
                "sleep"}

\* C10: once stop() has been called on a started interface in one of the
\* named states, the supervise task eventually ends and every stop() call
\* returns.
C10_StopCompletes ==
    (stopping /\ stop_state \in NamedStates) ~>
        /\ sup_pc = "done"
        /\ \A c \in StopTasks : stop_pc[c] \notin {"disconnect", "await_supervise"}

\* C11: hook ordering.  In every attempt the run task is started only after
\* the _connect of that attempt returned; _subscribe is called only after
\* _running was set by the run task of that attempt; without fail-safe start
\* startup is reported as finished (and start() returns) only after _subscribe
\* returned; and the _connect of a new attempt is called only after the run
\* task of the previous attempt has ended.
C11_HookOrdering ==
    /\ [][/\ (run_task' = "active" /\ run_task # "active") =>
                connect_task = "ok"
          /\ subscribe_count' # subscribe_count =>
                running /\ run_task # "none" /\ connect_task = "ok"
          /\ (started' = "ok" /\ started # "ok" /\ ~failsafe_start) =>
                subscribe_task = "ok"
          /\ connect_count' # connect_count => run_task # "active"]_vars
    /\ []((start_pc = "returned" /\ ~failsafe_start) => subscribe_count >= 1)

C11_Witness ==
    /\ ~failsafe_start
    /\ start_pc = "returned"
    /\ connect_count = 2
    /\ subscribe_count = 2
    /\ RunningState


\* b to the power n.
RECURSIVE Power(_, _)
Power(b, n) == IF n = 0 THEN 1 ELSE b * Power(b, n - 1)

\* The fraction i is backoff_base * backoff_exponent^n.
IsBackoff(i, n) ==
    i[1] * Power(backoff_exponent_den, n) =
        backoff_base * Power(backoff_exponent_num, n) * i[2]

\* C30: the wait before the k-th reconnect attempt since start() is
\* backoff_base * backoff_exponent^(k-1), whatever the attempts before it
\* reached: the interval is multiplied after every wait, is not capped and
\* is not reset by an attempt that reached the running state.
C30_BackoffProgression ==
    \A k \in DOMAIN waits : IsBackoff(waits[k], k - 1)

\* The supervise task waits the second time, after a first attempt whose
\* _connect failed and a second attempt that reached the running state and
\* whose _run failed then.
C30_Witness ==
    /\ sup_pc = "sleep"
    /\ Len(waits) = 2
    /\ fault_log = <<"connect", "run">>
    /\ connect_count = 2
    /\ subscribe_count = 1
    /\ subscribe_task = "ok"
    /\ waits[2] # waits[1]

\* C40: once stop() has been called on the interface (the event _stopping
\* is set), no step of the supervise task starts a new _connect, _run or
\* _subscribe invocation or creates the interface_failure task, in whatever
\* state the stop request arrives, and a further stop() call does not call
\* _disconnect again.
C40_NothingStartedAfterStop ==
    [][/\ stopping =>
            /\ connect_count' = connect_count
            /\ ~(sup_pc = "connect_wait" /\ sup_pc' = "running_wait")
            /\ subscribe_count' = subscribe_count
            /\ failure_count' = failure_count
       /\ \A c \in StopTasks :
            (stopping /\ stop_pc[c] = "scheduled" /\ stop_pc'[c] # "scheduled")
                => disconnect_count' = disconnect_count]_vars

(***************************************************************************)
(* Properties of main(), run() and stop() of the process.                  *)
(***************************************************************************)
\* A stop() call made by the stop() task c has begun and has neither
\* returned nor raised.
StopInProgress(c) ==
    \/ stop_pc[c] \in {"disconnect", "await_supervise"}
    \/ other_stop[c] = "running"

\* C12: orderly shutdown.  Whenever the stop event becomes set after run()
\* began, the task that sets it has seen stop() of both interfaces and of the
\* timer supervisor return or raise, and no stop() call of a registered
\* interface is still in progress, whichever stop() task made the call.
C12_OrderlyShutdown ==
    [][(~shc_stopped /\ shc_stopped' /\ run_pc # "idle") =>
          /\ \E c \in StopTasks : StopsGathered(c)
          /\ \A c \in StopTasks : ~StopInProgress(c)]_vars

\* main() has returned.
MainReturned == main_pc = "returned"

\* C13: exit code.  main() returns 1 exactly if interface_failure has run,
\* it returns 0 if only a signal created a stop() task, and _EXIT_CODE never
\* goes back from 1 to 0.
C13_ExitCode ==
    /\ [](MainReturned => (main_code = 1 <=> failure_task = "done"))
    /\ [](MainReturned => main_code \in {0, 1})
    /\ []((MainReturned /\ failure_task = "none") => main_code = 0)
    /\ [][exit_code = 1 => exit_code' = 1]_vars

\* main() has returned 1 after a failure of the interface shut the process
\* down.
C13_Witness ==
    /\ MainReturned
    /\ main_code = 1
    /\ failure_task = "done"
    /\ stop_set["failure"]

\* C14: startup ordering.  read_initialize_variables is called only once
\* start() of both interfaces has returned normally, timer_supervisor.start()
\* only once read_initialize_variables has returned, run() waits for the stop
\* event only once timer_supervisor.start() has returned, and if a start()
\* raised neither of the two has been called.
C14_StartupOrdering ==
    /\ "variables_called" \in startup_events =>
           start_pc = "returned" /\ other_start = "returned"
    /\ "timers_called" \in startup_events =>
           "variables_done" \in startup_events
    /\ run_pc \in {"blocked", "returned"} => "timers_done" \in startup_events
    /\ "timers_done" \in startup_events => "timers_called" \in startup_events
    /\ "variables_done" \in startup_events =>
           "variables_called" \in startup_events
    /\ (start_pc = "raised" \/ other_start = "raised") => startup_events = {}

\* run() waits for the stop event after the whole startup sequence.
C14_Witness ==
    /\ run_pc = "blocked"
    /\ startup_events = {"variables_called", "variables_done",
                         "timers_called", "timers_done"}
    /\ start_pc = "returned"
    /\ other_start = "returned"


(***************************************************************************)
(* Properties of the API object.                                           *)
(***************************************************************************)
\* The number of elements of the sequence s equal to x.
CountIn(s, x) == Cardinality({i \in DOMAIN s : s[i] = x})

\* The sequences s and t hold the same values, each as often.
SameBag(s, t) ==
    \A x \in {s[i] : i \in DOMAIN s} \cup {t[i] : i \in DOMAIN t} :
        CountIn(s, x) = CountIn(t, x)

\* A long poll whose If-None-Match header was the etag current at the
\* request, with no value published between request and response.
QuietMatchingPoll(r) ==
    /\ r.wait
    /\ r.etag_match = str(id(r.asked))
    /\ r.writes_after = r.writes_before

\* C15: long-poll timeout.  A GET with wait=true and an If-None-Match header
\* equal to the current etag, during which nothing is written, is answered
\* 304 only after its timeout has expired, with the etag of the request.
C15_LongPollTimeout ==
    \A c \in Clients : \A i \in DOMAIN responses[c] :
        QuietMatchingPoll(responses[c][i]) =>
            /\ responses[c][i].status = 304
            /\ ~responses[c][i].changed
            /\ responses[c][i].elapsed
            /\ responses[c][i].etag = responses[c][i].etag_match

\* Every request of client c so far was a long poll that carried the ETag of
\* the client's previous response, and none is in progress.
FollowsProtocol(c) ==
    /\ g_pc[c] = "idle"
    /\ \A i \in DOMAIN responses[c] :
           /\ responses[c][i].wait
           /\ responses[c][i].etag_match = responses[c][i].previous

\* The values returned to client c, in order.
RECURSIVE ReturnedValues(_)
ReturnedValues(rs) ==
    IF rs = << >> THEN << >>
    ELSE LET r == rs[Len(rs)]
             before == ReturnedValues(SubSeq(rs, 1, Len(rs) - 1))
         IN  IF r.changed /\ r.value # PyNone THEN Append(before, r.value)
             ELSE before

\* C16: long-poll correctness.  The values returned to a client that always
\* sends the etag of its previous response are, as a multiset, the values
\* written so far without some of the last ones.
C16_LongPollCorrectness ==
    \A c \in Clients :
        FollowsProtocol(c) =>
            \E k \in 0 .. Len(written) :
                SameBag(ReturnedValues(responses[c]), SubSeq(written, 1, k))

\* The body of the POST p is JSON that from_json converts to the object's
\* type.
Convertible(p) ==
    /\ json_loads(p.body).error = "none"
    /\ from_json(json_loads(p.body).data).error = "none"

\* C17: outcome of a POST.  A convertible body posted to the registered name
\* is published with the request as origin, resolves the future and is
\* answered 204; a body that is not convertible is answered 422, an unknown
\* name 404; and whenever the answer is not 204 nothing has been published
\* and the future of the object is the one it was.
C17_PostOutcome ==
    \A i \in DOMAIN posts :
        LET p == posts[i]
        IN  /\ (p.name = "known" /\ Convertible(p)) =>
                   /\ p.status = 204
                   /\ p.future_after # p.future_before
                   /\ \E j \in DOMAIN published :
                          published[j] =
                              [value |-> from_json(json_loads(p.body).data).value,
                               origin |-> <<i>>]
            /\ (p.name = "known" /\ ~Convertible(p)) => p.status = 422
            /\ (p.name = "unknown" /\ json_loads(p.body).error = "none") =>
                   p.status = 404
            /\ p.status # 204 =>
                   /\ ~p.published
                   /\ p.future_after = p.future_before
                   /\ p.state_after = "pending"


\* C35: between the operations the current future of the API object is
\* pending, whatever GET requests (long polls that time out included),
\* writes and POST requests came before, and no call of _publish_http has
\* raised the invalid-state error of a future that is not pending.
C35_FuturePending ==
    /\ futures[future].state = "pending"
    /\ write_errors = 0

(***************************************************************************)
(* Properties of aggregate().  What a result should be is stated second by *)
(* second: timestamps being whole seconds, a value is in effect during the *)
(* whole second that begins at t if it is in effect at t.                  *)
(***************************************************************************)
\* The number of aggregation intervals of the call: the k with
\* start + k * interval < end.
NumIntervals ==
    Cardinality({k \in 0 .. agg_call.end - agg_call.start :
                    agg_call.start + k * agg_call.interval < agg_call.end})

\* Begin and end of the k-th aggregation interval; the last one ends at end.
IntervalBegin(k) == agg_call.start + k * agg_call.interval

IntervalEnd(k) ==
    IF IntervalBegin(k + 1) < agg_call.end THEN IntervalBegin(k + 1)
    ELSE agg_call.end

\* The intervals that do not lie entirely before the first entry of the log.
EmittedIntervals ==
    {k \in 0 .. NumIntervals - 1 : IntervalEnd(k) > agg_call.data[1][1]}

\* The value in effect at time t: that of the last entry not after t.
ValueAt(t) ==
    LET known == {i \in DOMAIN agg_call.data : agg_call.data[i][1] <= t}
    IN  agg_call.data[CHOOSE i \in known : \A j \in known : j <= i][2]

\* The seconds of the k-th interval at which a value is in effect.
KnownSeconds(k) ==
    {t \in IntervalBegin(k) .. IntervalEnd(k) - 1 : t >= agg_call.data[1][1]}

\* The sum of the values in effect at the seconds of the set.
RECURSIVE SumOfValues(_)
SumOfValues(seconds) ==
    IF seconds = {} THEN 0
    ELSE LET t == CHOOSE x \in seconds : TRUE
         IN  ValueAt(t) + SumOfValues(seconds \ {t})

\* The seconds of the k-th interval at which the value in effect is truthy.
OnSeconds(k) == {t \in KnownSeconds(k) : Truthy(ValueAt(t))}

\* The interval the j-th entry of the result belongs to.
IntervalOf(j) == NumIntervals - Len(agg_result) + j - 1

\* aggregate() has returned the result of a call with a log that is not
\* empty.
Returned == agg_pc = "returned" /\ agg_call.data # << >>

\* C18: aggregation completeness.  The result has one entry for every
\* aggregation interval that does not lie entirely before the first entry of
\* the log, ceil((end - start) / interval) entries less the omitted ones, in
\* increasing order, the entry of the k-th interval with the timestamp
\* start + k * interval; the last, shorter interval is among them.
C18_AggregationCompleteness ==
    Returned =>
        /\ Len(agg_result) = Cardinality(EmittedIntervals)
        /\ Len(agg_result) =
               NumIntervals - Cardinality({k \in 0 .. NumIntervals - 1 :
                                  IntervalEnd(k) <= agg_call.data[1][1]})
        /\ \A j \in DOMAIN agg_result :
               /\ IntervalOf(j) \in EmittedIntervals
               /\ agg_result[j][1] = IntervalBegin(IntervalOf(j))
        /\ \A j \in 1 .. Len(agg_result) - 1 :
               agg_result[j][1] < agg_result[j + 1][1]

\* A result that leaves out the interval before the first entry and holds
\* the shorter interval at the end of the range.
C18_Witness ==
    /\ Returned
    /\ IntervalEnd(0) <= agg_call.data[1][1]
    /\ (agg_call.end - agg_call.start) % agg_call.interval # 0
    /\ Len(agg_result) = 1
    /\ NumIntervals = 2
    /\ agg_result[1][1] = agg_call.start + agg_call.interval

\* C19: AVERAGE.  The value of every entry is the mean of the values in
\* effect during its interval, each weighted with the time it was in effect
\* there: value_sum / time_sum equals the sum over the seconds of the interval
\* divided by their number.  For the entries 0:0, 30:10, 60:20 queried over
\* [0, 120) with interval 60 the result is [(0, 5.0), (60, 20.0)].
C19_Average ==
    (Returned /\ agg_call.method = "AVERAGE") =>
        /\ \A j \in DOMAIN agg_result :
               /\ Len(agg_result[j][2]) = 2
               /\ agg_result[j][2][2] > 0
               /\ agg_result[j][2][1] * Cardinality(KnownSeconds(IntervalOf(j)))
                      = agg_result[j][2][2] * SumOfValues(KnownSeconds(IntervalOf(j)))
        /\ agg_call.data = <<(<<0, 0>>), (<<30, 10>>), (<<60, 20>>)>> =>
               /\ Len(agg_result) = 2
               /\ agg_result[1][1] = 0
               /\ agg_result[1][2][1] = 5 * agg_result[1][2][2]
               /\ agg_result[2][1] = 60
               /\ agg_result[2][2][1] = 20 * agg_result[2][2][2]

\* The worked example has returned its two entries.
C19_Witness ==
    /\ agg_pc = "returned"
    /\ agg_call.method = "AVERAGE"
    /\ agg_call.data = <<(<<0, 0>>), (<<30, 10>>), (<<60, 20>>)>>
    /\ agg_result = <<(<<0, (<<300, 60>>)>>), (<<60, (<<1200, 60>>)>>)>>

\* C20: ON_TIME and ON_TIME_RATIO.  The ON_TIME of every entry is the time
\* within its interval during which the value in effect was truthy, and the
\* ON_TIME_RATIO is that time divided by the length of the interval, also for
\* the first entry when the first entry of the log lies inside its interval.
C20_OnTime ==
    /\ (Returned /\ agg_call.method = "ON_TIME") =>
           \A j \in DOMAIN agg_result :
               agg_result[j][2] = <<Cardinality(OnSeconds(IntervalOf(j))), 1>>
    /\ (Returned /\ agg_call.method = "ON_TIME_RATIO") =>
           \A j \in DOMAIN agg_result :
               /\ Len(agg_result[j][2]) = 2
               /\ agg_result[j][2][2] > 0
               /\ agg_result[j][2][1]
                      * (IntervalEnd(IntervalOf(j)) - IntervalBegin(IntervalOf(j)))
                      = agg_result[j][2][2] * Cardinality(OnSeconds(IntervalOf(j)))

\* The values touching the k-th interval: the values in effect for some time
\* within it, and the value of every entry with a timestamp within it.
Touching(k) ==
    {ValueAt(t) : t \in KnownSeconds(k)}
        \cup {agg_call.data[i][2] :
                 i \in {n \in DOMAIN agg_call.data :
                           /\ IntervalBegin(k) <= agg_call.data[n][1]
                           /\ agg_call.data[n][1] < IntervalEnd(k)}}

\* The least and the greatest member of a set of numbers that is not empty.
Least(values) == CHOOSE v \in values : \A w \in values : v <= w
Greatest(values) == CHOOSE v \in values : \A w \in values : v >= w

\* C21: MINIMUM and MAXIMUM.  The value of every entry is the minimum
\* (maximum) of the values touching its interval: the value carried into the
\* interval if it is in effect there for some time, and the value of every
\* entry with a timestamp within the interval; a value that ends exactly at
\* the begin of the interval is not among them.
C21_MinMax ==
    /\ (Returned /\ agg_call.method = "MINIMUM") =>
           \A j \in DOMAIN agg_result :
               agg_result[j][2] = <<Least(Touching(IntervalOf(j))), 1>>
    /\ (Returned /\ agg_call.method = "MAXIMUM") =>
           \A j \in DOMAIN agg_result :
               agg_result[j][2] = <<Greatest(Touching(IntervalOf(j))), 1>>

\* The values in effect for some time within the k-th interval.
ValuesSeen(k) == {ValueAt(t) : t \in KnownSeconds(k)}

\* C22: bounds of the aggregated values.  For every entry of a result the
\* ON_TIME is at most the length of its interval, the ON_TIME_RATIO lies in
\* [0, 1], and the AVERAGE lies between the least and the greatest value seen
\* in its interval; no entry is computed from a total duration of zero.
C22_AggregationBounds ==
    Returned =>
        \A j \in DOMAIN agg_result :
            LET k == IntervalOf(j)
                v == agg_result[j][2]
            IN  /\ Len(v) = 2
                /\ v[2] > 0
                /\ agg_call.method = "ON_TIME" =>
                       /\ v[1] >= 0
                       /\ v[1] <= (IntervalEnd(k) - IntervalBegin(k)) * v[2]
                /\ agg_call.method = "ON_TIME_RATIO" =>
                       /\ v[1] >= 0
                       /\ v[1] <= v[2]
                /\ agg_call.method = "AVERAGE" =>
                       /\ Least(ValuesSeen(k)) * v[2] <= v[1]
                       /\ v[1] <= Greatest(ValuesSeen(k)) * v[2]

\* The first entry of the log lies before start_time, the second within the
\* first interval, and the ON_TIME of that interval is its whole length.
C22_Witness ==
    /\ Returned
    /\ agg_call.method = "ON_TIME"
    /\ Len(agg_call.data) >= 2
    /\ agg_call.data[1][1] < agg_call.start
    /\ agg_call.data[2][1] >= agg_call.start
    /\ agg_call.data[2][1] < IntervalEnd(0)
    /\ agg_result # << >>
    /\ agg_result[1] = <<agg_call.start, <<IntervalEnd(0) - agg_call.start, 1>>>>

\* The call of aggregate() has ended, with a result or with an exception.
CallEnded == agg_pc \in {"returned", "raised"}

\* C23: errors of aggregate().  A call with AVERAGE, MINIMUM or MAXIMUM for
\* a type that is neither int nor float ends with a TypeError, a call with a
\* method that is none of the five ends with a ValueError, both before an
\* entry of the log has been read, whatever the log and the time range, an
\* empty range start_time = end_time included.
C23_TypeAndValueErrors ==
    CallEnded =>
        /\ (/\ agg_call.method \in {"AVERAGE", "MINIMUM", "MAXIMUM"}
            /\ agg_call.type \notin {"int", "float"}) =>
               /\ agg_pc = "raised"
               /\ agg_error = "TypeError"
               /\ agg_read = 0
        /\ agg_call.method \notin AggregationMethods =>
               /\ agg_pc = "raised"
               /\ agg_error = "ValueError"
               /\ agg_read = 0

(***************************************************************************)
(* Properties of the live view and of retrieve_log_sync.                   *)
(***************************************************************************)
\* The calls of _process_new_logvalues of an _update that have returned, in
\* the order of the calls.
Delivered == {i \in DOMAIN processed :
                 processed[i].kind = "range" /\ processed[i].returned}

\* The delivered call before the delivered call i (0: none).
PreviousDelivered(i) ==
    IF \E j \in Delivered : j < i
    THEN CHOOSE j \in Delivered : j < i /\ \A k \in Delivered : k < i => k <= j
    ELSE 0

\* No timestamp lies in both half-open ranges.
Disjoint(r, q) == r[1] >= r[2] \/ q[1] >= q[2] \/ r[2] <= q[1] \/ q[2] <= r[1]

\* The _update tasks that hold the mutex of the view.
UpdatesRunning == {u \in Updates : u_pc[u] \in {"retrieving", "processing"}}

\* C24: a view in poll mode without aggregation delivers no entry twice.
\* The executions of _update exclude each other; the first delivered range
\* begins at now - interval and every later one at the end of the one
\* before; and for a client that has taken get_current_view the range of
\* its view and the ranges delivered afterwards are pairwise disjoint.
C24_NoDoubleDelivery ==
    (~Push /\ ~view_aggregation) =>
        /\ Cardinality(UpdatesRunning) <= 1
        /\ \A i \in Delivered :
               IF PreviousDelivered(i) = 0
               THEN processed[i].range[1] = processed[i].range[2] - ViewInterval
               ELSE processed[i].range[1] =
                        processed[PreviousDelivered(i)].range[2]
        /\ \A i, j \in Delivered :
               i # j => Disjoint(processed[i].range, processed[j].range)
        /\ \A c \in Viewers :
               c_pc[c] = "returned" =>
                   \A i \in Delivered :
                       i > c_seen[c] => Disjoint(c_range[c], processed[i].range)

\* The _process_new_logvalues calls with the batch of flush i.
ProcessedBatch(i) ==
    {k \in DOMAIN processed :
        processed[k].kind = "batch" /\ processed[k].batch = flushes[i].batch}

\* C25: push mode.  The view is in push mode exactly when its source is a
\* writable data log, external_updates is false and no aggregation is set.
\* In push mode the batch of every flush, the list passed to
\* _write_to_data_log, is passed as it is to _process_new_logvalues of the
\* subscribed view exactly once, and no _update is scheduled; a view in poll
\* mode subscribed to a writable data log gets an _update scheduled for the
\* flush and no batch.
C25_PushDelivery ==
    /\ Push <=> (view_writable /\ ~view_external /\ ~view_aggregation)
    /\ Push =>
           /\ updates_created = 0
           /\ \A k \in DOMAIN processed :
                  /\ processed[k].kind = "batch"
                  /\ \E i \in DOMAIN flushes : k \in ProcessedBatch(i)
           /\ \A i \in DOMAIN flushes :
                  /\ Cardinality(ProcessedBatch(i)) =
                         IF i \in notified THEN 1 ELSE 0
                  /\ flushes[i].subs[1] # "running" => i \in notified
    /\ (~Push /\ view_writable) =>
           /\ \A k \in DOMAIN processed : processed[k].kind = "range"
           /\ updates_created >= Cardinality(notified)
           /\ \A i \in DOMAIN flushes :
                  flushes[i].subs[1] # "running" => i \in notified

\* A flush of two entries has been passed to the view in push mode, and the
\* call of _new_log_values_written has returned.
C25_Witness ==
    /\ Push
    /\ \E i \in DOMAIN flushes :
           /\ Len(flushes[i].batch) = 2
           /\ flushes[i].subs[1] = "ok"
           /\ Cardinality(ProcessedBatch(i)) = 1

\* The retrieve_log_sync calls that hold the mutex and read.
Reading == {c \in Viewers : c_pc[c] = "reading"}

\* C26: retrieve_log_sync holds the flush mutex for the whole retrieval.
\* While a call is reading no _write_to_data_log of the variable is in
\* progress, and while a flush is in progress no call is reading.
C26_SyncRetrieval ==
    /\ Reading # {} => RunningLogWrites = {}
    /\ (\E w \in Writers : w_pc[w] = "flushing") => Reading = {}

\* The batches of the first n flushes, one after the other.
RECURSIVE Flushed(_)
Flushed(n) == IF n = 0 THEN << >> ELSE Flushed(n - 1) \o flushes[n].batch

\* No call of _write_to_data_log or of _new_log_values_written has raised.
NoFlushFailed ==
    \A i \in DOMAIN flushes :
        /\ flushes[i].log # "failed"
        /\ \A s \in DOMAIN flushes[i].subs : flushes[i].subs[s] # "failed"

\* C33: as long as no flush fails, the batches passed to _write_to_data_log
\* followed by the values still pending are the values accepted by _write in
\* arrival order, each of them once, and no batch is empty, also when a
\* retrieve_log_sync call held the mutex in between.
C33_NoLossNoDuplication ==
    NoFlushFailed =>
        /\ Flushed(Len(flushes)) \o pending_values = [k \in 1 .. calls |-> k]
        /\ \A i \in DOMAIN flushes : flushes[i].batch # << >>

\* The first flush was made by the first writer with the values of two
\* calls: it had to wait for the mutex, which a retrieve_log_sync call held.
C33_Witness ==
    /\ NoFlushFailed
    /\ Len(flushes) >= 1
    /\ flushes[1].by = 1
    /\ flushes[1].batch = <<1, 2>>
    /\ flushes[1].log = "ok"
    /\ \E c \in Viewers : c_pc[c] = "returned"

\* The _update calls that have delivered their data and moved the cut-off.
Delivering == {u \in Updates : u_pc[u] = "done"}

\* The range of a delivery holds the timestamp of the entry of call w.
Covers(u, w) == u_range[u][1] <= entry_time[w] /\ entry_time[w] < u_range[u][2]

\* C38: in poll mode without aggregation an entry persisted by a flush is in
\* the data of exactly one _update delivery as soon as a delivery has
\* covered its timestamp: an _update that reads the log and moves the
\* cut-off past the timestamp before the entry is persisted does not make
\* the view skip it.
C38_NoEntrySkipped ==
    \A w \in InLog :
        (\E u \in Delivering : Covers(u, w))
            => Cardinality({u \in Delivering : w \in u_data[u]}) = 1

(***************************************************************************)
(* Properties of retrieve_log.                                             *)
(***************************************************************************)
\* The rows of the table as entries.
Persisted == [i \in DOMAIN db_rows |-> Entry(db_rows[i])]

\* The persisted entries with start_time <= ts < end_time.
EntriesInRange ==
    LET InRange(e) == /\ Instant(e[1]) >= Instant(ret_call.start)
                      /\ Instant(e[1]) < Instant(ret_call.end)
    IN  SelectSeq(Persisted, InRange)

\* The persisted entries before start_time, and whether one lies at it.
EntriesBefore ==
    {i \in DOMAIN Persisted :
        Instant(Persisted[i][1]) < Instant(ret_call.start)}
EntryAtStart ==
    \E i \in DOMAIN Persisted :
        Instant(Persisted[i][1]) = Instant(ret_call.start)

\* C27: retrieve_log returns exactly the persisted entries with
\* start <= ts < end; with include_previous the latest entry with ts < start
\* is returned in addition if no entry lies exactly at start, and is not
\* returned if one does.
C27_RetrieveLog ==
    ret_pc = "returned" =>
        IF ret_call.include_previous /\ ~EntryAtStart /\ EntriesBefore # {}
        THEN \E i \in EntriesBefore :
                 /\ \A j \in EntriesBefore :
                        Instant(Persisted[j][1]) <= Instant(Persisted[i][1])
                 /\ SameBag(ret_result, <<Persisted[i]>> \o EntriesInRange)
        ELSE SameBag(ret_result, EntriesInRange)


(***************************************************************************)
(* Properties of the timer.                                                *)
(***************************************************************************)
\* The timer has fired k times and the task created at its latest firing
\* has not ended.
BehindPublish(k) ==
    /\ Len(fired_at) = k
    /\ publish_tasks[k] = "running"

\* The executions after the first are computed at the time of a firing.
ScheduledAtFiring ==
    \A k \in DOMAIN fired_at :
        (k + 1) \in DOMAIN scheduled => scheduled[k + 1].now = fired_at[k]

\* C28: a firing creates a task for _publish and the timer loop goes on
\* without awaiting it: the next execution is computed at the firing itself,
\* and the timer never stays for ever at a firing whose handlers are still
\* running, so a handler that never finishes neither delays nor prevents
\* the later firings.
C28_PublishInNewTask ==
    /\ []ScheduledAtFiring
    /\ \A k \in 1..(MaxFirings - 1) : []<>(~BehindPublish(k))

\* The timer fired again while the handlers of its first firing were running.
C28_Witness ==
    /\ Len(fired_at) >= 2
    /\ publish_tasks[1] = "running"

\* The multiples of delta up to the first one after now.
Multiples(delta, now) == {k * delta : k \in 0..(now + 1)}

SmallestMultipleAfter(delta, now) ==
    CHOOSE m \in Multiples(delta, now) :
        /\ m > now
        /\ \A n \in Multiples(delta, now) : n > now => m <= n

\* C29: every execution _next_execution returned is, with align, the
\* smallest multiple of delta greater than now plus offset plus the random
\* time; without align it is now plus offset plus the random time the first
\* time, and afterwards the execution scheduled before plus delta plus offset
\* plus the random time.
C29_NextExecution ==
    \A k \in DOMAIN scheduled :
        LET call == scheduled[k]
            base == IF every_align
                    THEN SmallestMultipleAfter(every_delta, call.now)
                    ELSE IF k = 1 THEN call.now
                    ELSE scheduled[k - 1].execution + every_delta
        IN  call.execution = base + every_offset + call.random_time

\* Without align, a second execution was computed after a firing that came
\* later than scheduled, with an offset and a random time.
C29_Witness ==
    /\ ~every_align
    /\ Len(scheduled) >= 2
    /\ fired_at[1] > scheduled[1].execution
    /\ every_offset # 0
    /\ scheduled[2].random_time # 0


\* C39: for a timer with align the executions are scheduled at strictly
\* increasing times, and the execution computed at a firing is later than
\* the firing, whatever the offset and the random time: the loop does not
\* fire again without sleeping.
C39_AlignedExecutionsIncrease ==
    every_align =>
        \A k \in DOMAIN fired_at :
            (k + 1) \in DOMAIN scheduled =>
                /\ scheduled[k + 1].execution > scheduled[k].execution
                /\ scheduled[k + 1].execution > fired_at[k]

(***************************************************************************)
(* Properties of _logarithmic_sleep.                                       *)
(***************************************************************************)
\* Each sleep asks for half of the remaining time while that is at least
\* 0.2 s, and for the remaining time once when it is less.
SleepsAsStated ==
    \A k \in DOMAIN sleeps :
        LET sleep == sleeps[k]
        IN  /\ sleep.diff > 0
            /\ sleep.diff >= Threshold =>
                   2 * sleep.delay[1] = sleep.diff * sleep.delay[2]
            /\ sleep.diff < Threshold =>
                   /\ sleep.delay[1] = sleep.diff * sleep.delay[2]
                   /\ k = Len(sleeps)
                   /\ sleep_pc = "returned"

\* A call that returned without a sleep of the remainder had no remaining
\* time left: the target was not in the future when the loop looked last.
RemainderSlept ==
    (/\ sleep_pc = "returned"
     /\ sleeps = <<>> \/ sleeps[Len(sleeps)].diff >= Threshold)
        => sleep_target <= sleep_now

\* A call whose target is not in the future returns without a sleep.
ReturnsAtOnce ==
    (sleep_pc = "returned" /\ sleep_target <= sleep_called) => sleeps = <<>>

\* The call does not return before the target unless a sleep was short.
NotBeforeTarget ==
    (sleep_pc = "returned" /\ \A k \in DOMAIN sleeps : ~Short(sleeps[k]))
        => sleep_now >= sleep_target

\* C31: _logarithmic_sleep returns for every target; it sleeps half of the
\* remaining time while that is at least 0.2 s and the remainder once
\* otherwise, does not sleep when the target is not in the future, and does
\* not return before the target when no sleep lasts less than asked.
C31_LogarithmicSleep ==
    /\ [](SleepsAsStated /\ RemainderSlept /\ ReturnsAtOnce /\ NotBeforeTarget)
    /\ <>(sleep_pc = "returned")

\* A call that halved the remaining time twice and slept the remainder,
\* every sleep lasting as long as asked or longer.
C31_Witness ==
    /\ sleep_pc = "returned"
    /\ Len(sleeps) >= 3
    /\ sleeps[Len(sleeps)].diff < Threshold
    /\ \A k \in DOMAIN sleeps : ~Short(sleeps[k])


(***************************************************************************)
(* Properties of the websocket connection.                                 *)
(***************************************************************************)
\* C36: after the websocket handler of the connection has finished the
\* websocket is in subscribed_websockets of no WebApiObject and of no
\* WebUIConnector, whatever the dispatch tasks of its subscribe messages
\* still do.
C36_ClosedWebsocketUnsubscribed ==
    ws_handler = "finished" => ~ui_subscribed /\ ~api_subscribed

\* How often the frames sent to the websocket hold the entry e.
TimesReceived(e) ==
    Cardinality({k \in DOMAIN ws_frames : e \in ws_frames[k].data})

\* C37: a websocket that has subscribed to the LoggingWebUIView once has
\* received every entry of the view exactly once, in its initial frame or
\* in an update frame.
C37_EveryEntryOnce ==
    (/\ ui_subscribed
     /\ Cardinality({m \in Messages : ws_tasks[m].pc \notin {"none", "raised"}}) = 1)
        => \A e \in 1 .. view_entries : TimesReceived(e) = 1

====
